---- MODULE Spec2Model ----
(***************************************************************************)
(* State machine of the insurance console (src/unnamed/part_000, first app *)
(* variant, lines 927-1691): the App component's React state, the hosted   *)
(* identity service and document store it talks to, and one action per     *)
(* handler, effect or callback.  An asynchronous handler is split at its   *)
(* awaits: the part up to the first await is one action, the store's       *)
(* answer together with the continuation that runs on it is another.       *)
(*                                                                         *)
(* Handlers are enabled in the UI states that render the control invoking  *)
(* them (App render, lines 1447-1637) and take any field values a handler  *)
(* can be passed; page navigation (currentPage) only selects which of the  *)
(* controls is on screen and is not a state variable.                      *)
(***************************************************************************)
EXTENDS Integers, Sequences, FiniteSets, TLC

\* ----------------------------------------------------------------- bounds
MaxPolicies == 2     \* policies created in one run
MaxEntries == 2      \* ledger entries created in one run
MaxInFlight == 1     \* handler invocations awaiting the store at one time
MaxStored == 3       \* documents of one collection stored before the session
MaxSorted == 4       \* stored policies the policy table is sorted on
FirstTick == 7       \* the clock when the session starts
LastTick == 13       \* the clock is followed up to here

\* ------------------------------------------------------------ value space
Users == {"u1", "u2"}
NoUser == "null"
ErrorMessages == {"unavailable"}

Null == <<>>
Some(x) == <<x>>

\* A JavaScript number: an integer value or NaN.
Num(n) == [nan |-> FALSE, val |-> n]
NaN == [nan |-> TRUE, val |-> 0]

\* No document id: a null policyId, a missing id.
NoId == 0

\* serverTimestamp(): the sentinel the store replaces by its clock on write.
ServerTimestamp == 0

\* Text typed into a form is a sequence of characters.
T100 == <<"1", "0", "0">>
T50 == <<"5", "0">>
T10 == <<"1", "0">>
T30 == <<"3", "0">>
Tabc == <<"a", "b", "c">>
Empty == <<>>

IsDigit(c) == c \in {"0", "1", "2", "3", "4", "5", "6", "7", "8", "9"}

DigitVal(c) ==
    CASE c = "0" -> 0 [] c = "1" -> 1 [] c = "2" -> 2 [] c = "3" -> 3
      [] c = "4" -> 4 [] c = "5" -> 5 [] c = "6" -> 6 [] c = "7" -> 7
      [] c = "8" -> 8 [] c = "9" -> 9

RECURSIVE StripLeadingSpace(_)
StripLeadingSpace(s) ==
    IF s # <<>> /\ Head(s) = " " THEN StripLeadingSpace(Tail(s)) ELSE s

RECURSIVE DigitPrefix(_)
DigitPrefix(s) ==
    IF s # <<>> /\ IsDigit(Head(s)) THEN <<Head(s)>> \o DigitPrefix(Tail(s)) ELSE <<>>

RECURSIVE DigitsValue(_, _)
DigitsValue(s, acc) ==
    IF s = <<>> THEN acc ELSE DigitsValue(Tail(s), acc * 10 + DigitVal(Head(s)))

\* parseFloat on integer text: leading blanks skipped, optional sign, the
\* longest digit prefix; NaN when there is no digit.
parseFloat(s) ==
    LET t == StripLeadingSpace(s)
        signed == t # <<>> /\ Head(t) \in {"-", "+"}
        neg == t # <<>> /\ Head(t) = "-"
        d == DigitPrefix(IF signed THEN Tail(t) ELSE t)
    IN  IF d = <<>> THEN NaN
        ELSE Num(IF neg THEN 0 - DigitsValue(d, 0) ELSE DigitsValue(d, 0))

\* x || 0 on a number: NaN and 0 are falsy.
OrZero(x) == IF x.nan \/ x.val = 0 THEN Num(0) ELSE x

RECURSIVE NatToText(_)
NatToText(n) ==
    LET c == CASE n % 10 = 0 -> "0" [] n % 10 = 1 -> "1" [] n % 10 = 2 -> "2"
               [] n % 10 = 3 -> "3" [] n % 10 = 4 -> "4" [] n % 10 = 5 -> "5"
               [] n % 10 = 6 -> "6" [] n % 10 = 7 -> "7" [] n % 10 = 8 -> "8"
               [] n % 10 = 9 -> "9"
    IN  IF n < 10 THEN <<c>> ELSE NatToText(n \div 10) \o <<c>>

\* String(x) of a stored number, as an untouched edit field hands it to
\* parseFloat.
NumToText(x) ==
    IF x.nan THEN <<"N", "a", "N">>
    ELSE IF x.val < 0 THEN <<"-">> \o NatToText(0 - x.val) ELSE NatToText(x.val)

\* ----------------------------------------------------------------- messages
Msg(text, error) == [text |-> text, error |-> error]
NoMessage == Msg("", "")

\* --------------------------------------------------------------------- time
\* An instant is a number of ticks since 2023-12-31T00:00Z; a tick is six
\* hours, so that setHours(0, 0, 0, 0) and setHours(23, 59, 59, 999) land on
\* the first and the last tick of a local day.
TicksPerDay == 4

\* The browser's time zone, local time minus UTC in ticks: UTC-6, UTC, UTC+6.
TimeZones == {0 - 1, 0, 1}

\* The day a YYYY-MM-DD string names, counted from 2023-12-31.
DayNumber(s) ==
    CASE s = "2024-01-01" -> 1
      [] s = "2024-01-02" -> 2
      [] s = "2024-01-03" -> 3
      [] s = "2024-02-01" -> 32
      [] s = "2025-01-01" -> 367

\* new Date('YYYY-MM-DD'): a date-only string is read as midnight UTC.
NewDate(s) == DayNumber(s) * TicksPerDay

\* The calendar day the instant t falls on in time zone z.
LocalDay(t, z) == (t + z) \div TicksPerDay

\* d.setHours(0, 0, 0, 0): the first instant of d's day in local time.
StartOfLocalDay(t, z) == LocalDay(t, z) * TicksPerDay - z

\* d.setHours(23, 59, 59, 999): the last instant of d's day in local time.
EndOfLocalDay(t, z) == StartOfLocalDay(t, z) + TicksPerDay - 1

\* --------------------------------------------------------------------- text
\* The characters of the strings the documents hold, in code-unit order.
Alphabet ==
    <<" ", "0", "1", "2", "3", "4", "5", "6", "7", "8", "9",
      "A", "B", "C", "D", "E", "F", "G", "H", "I", "J", "K", "L", "M",
      "N", "O", "P", "Q", "R", "S", "T", "U", "V", "W", "X", "Y", "Z",
      "a", "b", "c", "d", "e", "f", "g", "h", "i", "j", "k", "l", "m",
      "n", "o", "p", "q", "r", "s", "t", "u", "v", "w", "x", "y", "z">>

CharCodes ==
    [c \in {Alphabet[i] : i \in DOMAIN Alphabet} |->
        CHOOSE i \in DOMAIN Alphabet : Alphabet[i] = c]

CharCode(c) == CharCodes[c]

UpperCase == {Alphabet[k] : k \in 12..37}

\* The characters of a string field.
Chars(s) ==
    CASE s = "" -> <<>>
      [] s = "New Policy" -> <<"N", "e", "w", " ", "P", "o", "l", "i", "c", "y">>
      [] s = "Toll" -> <<"T", "o", "l", "l">>
      [] s = "PN1" -> <<"P", "N", "1">>
      [] s = "PN2" -> <<"P", "N", "2">>
      [] s = "Ann" -> <<"A", "n", "n">>
      [] s = "Bo" -> <<"B", "o">>
      [] s = "Cy" -> <<"C", "y">>
      [] s = "Dee" -> <<"D", "e", "e">>
      [] s = "Eve" -> <<"E", "v", "e">>
      [] s = "Lee" -> <<"L", "e", "e">>
      [] s = "Roe" -> <<"R", "o", "e">>

\* String.prototype.toLowerCase.
toLowerCase(cs) ==
    [i \in DOMAIN cs |->
        IF cs[i] \in UpperCase
        THEN Alphabet[CharCode(cs[i]) + 26] ELSE cs[i]]

\* String.prototype.includes.
includes(hay, needle) ==
    \E k \in 0..(Len(hay) - Len(needle)) :
        \A i \in DOMAIN needle : hay[k + i] = needle[i]

\* a < b on strings: by the first code unit that differs, a proper prefix
\* first.
RECURSIVE TextLess(_, _)
TextLess(a, b) ==
    IF b = <<>> THEN FALSE
    ELSE IF a = <<>> THEN TRUE
    ELSE IF Head(a) = Head(b) THEN TextLess(Tail(a), Tail(b))
    ELSE CharCode(Head(a)) < CharCode(Head(b))

\* --------------------------------------------------------------- arithmetic
\* a + b and a - b on numbers: NaN is contagious.
Plus(a, b) == IF a.nan \/ b.nan THEN NaN ELSE Num(a.val + b.val)
Minus(a, b) == IF a.nan \/ b.nan THEN NaN ELSE Num(a.val - b.val)

\* A faulty variant of Amount: what is no number is not counted as 0.
C16_NoDefault(x) == parseFloat(NumToText(x))

\* parseFloat(x) || 0 on a stored number: parseFloat reads String(x).
Amount(x) == OrZero(parseFloat(NumToText(x)))

\* xs.reduce((acc, x) => acc + x, 0).
RECURSIVE Sum(_)
Sum(xs) ==
    IF xs = <<>> THEN Num(0)
    ELSE Plus(Sum(SubSeq(xs, 1, Len(xs) - 1)), xs[Len(xs)])

\* ------------------------------------------------------------------- forms
\* The Add Policy form state (useState cells, lines 971-987).
BaseForm ==
    [policyType |-> "New Policy", policyDate |-> "2024-01-01",
     validUntil |-> "2025-01-01", totalAmount |-> T100, commission |-> Empty,
     policyNumber |-> "PN1", vehicleNumber |-> "", insuranceType |-> "",
     paidByCustomer |-> FALSE, paidToInsurer |-> FALSE,
     firstName |-> "Ann", lastName |-> "Lee", phoneNumber |-> "",
     idNumber |-> "A1", address |-> "", city |-> "", postalCode |-> ""]

ValidForms ==
    {BaseForm,
     [BaseForm EXCEPT !.totalAmount = T50, !.commission = T10,
                      !.idNumber = "B2", !.firstName = "Cy",
                      !.paidToInsurer = TRUE]}

InvalidForms ==
    {[BaseForm EXCEPT !.policyNumber = ""],
     [BaseForm EXCEPT !.totalAmount = Empty],
     [BaseForm EXCEPT !.policyDate = ""],
     [BaseForm EXCEPT !.validUntil = ""],
     [BaseForm EXCEPT !.firstName = ""],
     [BaseForm EXCEPT !.lastName = ""]}

\* Filled in completely, the numbers with text that is no number.
NonNumericForms == {[BaseForm EXCEPT !.totalAmount = Tabc, !.commission = Tabc]}

\* Filled in completely but for the optional ID Number.
AnonymousForms == {[BaseForm EXCEPT !.idNumber = "", !.firstName = "Bo"]}

PolicyForms == ValidForms \cup NonNumericForms \cup InvalidForms

\* ---------------------------------------------------------- faulty variants
\* Each is a program definition with one fault put in; a property that is
\* to say something about the program must fail once the variant takes the
\* definition's place.

\* Confirmed: the dialog's answer is not looked at.
C2_AnswerIgnored(answer) == TRUE

\* RequiredMissing: lastName is not tested.
C3_LastNameNotRequired(f) ==
    \/ f.policyNumber = ""
    \/ f.totalAmount = Empty
    \/ f.policyDate = ""
    \/ f.validUntil = ""
    \/ f.firstName = ""

\* AllFulfilled: a rejected write is forgotten once the others are in.
C6_FailureForgotten(pending, failed) == pending = {}

\* Cleanup: the previous run's listeners are not unsubscribed.
C8_NoUnsubscribe(ls, prevUid) == ls

\* Req: an update is addressed to the ledger collection.
C11_UpdateOnLedger(kind, coll, uid, id, fields) ==
    [kind |-> kind, coll |-> IF kind = "update" THEN "payments_expenses" ELSE coll,
     uid |-> uid, id |-> id, fields |-> fields]

\* EntryRequiredMissing: the type is not tested.
C12_TypeNotRequired(f) == f.date = "" \/ f.amount = Empty

\* FanOutTargets: every policy of the cache is written, whatever its
\* idNumber.
C13_EveryPolicy(cache, idNumber) == {cache[i].id : i \in DOMAIN cache}

\* PolicyUpdateFields: the update carries createdAt: serverTimestamp() too.
C10_UpdateStampsCreatedAt(updatedPolicy) ==
    [f \in {"policyType", "policyDate", "validUntil", "totalAmount",
            "commission", "policyNumber", "vehicleNumber", "insuranceType",
            "paidByCustomer", "paidToInsurer", "customer", "createdAt"} |->
        IF f = "createdAt" THEN ServerTimestamp
        ELSE IF f = "totalAmount" THEN parseFloat(updatedPolicy.totalAmount)
        ELSE IF f = "commission" THEN OrZero(parseFloat(updatedPolicy.commission))
        ELSE updatedPolicy[f]]

\* PolicyUpdateFields: the update leaves the customer block to the store.
C24_CustomerKept(updatedPolicy) ==
    [f \in {"policyType", "policyDate", "validUntil", "totalAmount",
            "commission", "policyNumber", "vehicleNumber", "insuranceType",
            "paidByCustomer", "paidToInsurer"} |->
        IF f = "totalAmount" THEN parseFloat(updatedPolicy.totalAmount)
        ELSE IF f = "commission" THEN OrZero(parseFloat(updatedPolicy.commission))
        ELSE updatedPolicy[f]]

VARIABLES
    authUser,       \* identity service: the signed-in user
    authPending,    \* identity service: an auth-state callback is due
    storePolicies,  \* document store: policy documents of all namespaces
    storeLedger,    \* document store: payments_expenses documents
    nextPolicyId,   \* document store: policies written so far, plus one
    nextEntryId,    \* document store: ledger entries written so far, plus one
    listeners,      \* document store: live onSnapshot listeners
    user, userId, isAuthReady,
    authMessage, showModal, modalMessage,
    policies, loadingPolicies,
    paymentsExpenses, loadingPaymentsExpenses,
    isPolicyEditModalOpen, selectedPolicyForEdit,
    isCustomerEditModalOpen, selectedCustomerForEdit,
    ops,            \* handler invocations suspended at an await
    last,           \* the step just taken
    issued,         \* the store requests the step just taken has issued
    filterPolicyType, filterCustomerName, filterPolicyNumber,
    filterPaidByCustomer, filterPaidToInsurer,
    filterValidUntilStartDate, filterValidUntilEndDate,
    sortColumn, sortDirection,
    startDate, endDate,     \* FinancialReports: the date range typed in
    currentTime,    \* the browser's clock: what new Date() reads
    timeZone        \* the browser's time zone: local time minus UTC

storeVars == <<storePolicies, storeLedger, nextPolicyId, nextEntryId>>
authVars == <<authUser, authPending, user, userId, isAuthReady>>
cacheVars == <<policies, loadingPolicies, paymentsExpenses, loadingPaymentsExpenses>>
modalVars == <<showModal, modalMessage>>
editVars == <<isPolicyEditModalOpen, selectedPolicyForEdit,
              isCustomerEditModalOpen, selectedCustomerForEdit>>
filterVars == <<filterPolicyType, filterCustomerName, filterPolicyNumber,
                filterPaidByCustomer, filterPaidToInsurer,
                filterValidUntilStartDate, filterValidUntilEndDate>>
sortVars == <<sortColumn, sortDirection>>
reportVars == <<startDate, endDate>>
clockVars == <<currentTime, timeZone>>
viewVars == <<filterVars, sortVars, reportVars, clockVars>>
vars == <<authUser, authPending, storePolicies, storeLedger,
          nextPolicyId, nextEntryId, listeners, user, userId, isAuthReady,
          authMessage, showModal, modalMessage, policies, loadingPolicies,
          paymentsExpenses, loadingPaymentsExpenses, isPolicyEditModalOpen,
          selectedPolicyForEdit, isCustomerEditModalOpen,
          selectedCustomerForEdit, ops, last, issued,
          filterPolicyType, filterCustomerName, filterPolicyNumber,
          filterPaidByCustomer, filterPaidToInsurer,
          filterValidUntilStartDate, filterValidUntilEndDate,
          sortColumn, sortDirection, startDate, endDate,
          currentTime, timeZone>>

\* ---------------------------------------------------------------- requests
\* A request to the store: create / update / delete on a collection of the
\* namespace artifacts/{projectId}/users/{uid}/, with the field names it
\* carries.
Req(kind, coll, uid, id, fields) ==
    [kind |-> kind, coll |-> coll, uid |-> uid, id |-> id, fields |-> fields]

\* The step just taken: the handler or callback, the input it was given, the
\* suspended invocation it started or continued.
Event(kind, input, op) == [kind |-> kind, input |-> input, op |-> op]

LoggedIn == isAuthReady /\ user # NoUser

\* ------------------------------------------------------------------ caches
RECURSIVE SortByCreatedAtDesc(_)
SortByCreatedAtDesc(S) ==
    IF S = {} THEN <<>>
    ELSE LET m == CHOOSE d \in S : \A e \in S : e.createdAt <= d.createdAt
         IN  <<m>> \o SortByCreatedAtDesc(S \ {m})

RECURSIVE InIdOrder(_)
InIdOrder(S) ==
    IF S = {} THEN <<>>
    ELSE LET m == CHOOSE d \in S : \A e \in S : d.id <= e.id
         IN  <<m>> \o InIdOrder(S \ {m})

Range(s) == {s[i] : i \in DOMAIN s}

\* The view state as App (lines 952-962) and FinancialReports (lines 147-148)
\* construct it: no filter, newest first, no report range.
InitialView ==
    /\ filterPolicyType = Empty
    /\ filterCustomerName = Empty
    /\ filterPolicyNumber = Empty
    /\ filterPaidByCustomer = "all"
    /\ filterPaidToInsurer = "all"
    /\ filterValidUntilStartDate = ""
    /\ filterValidUntilEndDate = ""
    /\ sortColumn = "createdAt"
    /\ sortDirection = "desc"
    /\ startDate = ""
    /\ endDate = ""

Init ==
    /\ authUser = NoUser
    /\ authPending = TRUE
    /\ storePolicies = {}
    /\ storeLedger = {}
    /\ nextPolicyId = 1
    /\ nextEntryId = 1
    /\ listeners = {}
    /\ user = NoUser
    /\ userId = NoUser
    /\ isAuthReady = FALSE
    /\ authMessage = NoMessage
    /\ showModal = FALSE
    /\ modalMessage = NoMessage
    /\ policies = <<>>
    /\ loadingPolicies = FALSE
    /\ paymentsExpenses = <<>>
    /\ loadingPaymentsExpenses = FALSE
    /\ isPolicyEditModalOpen = FALSE
    /\ selectedPolicyForEdit = Null
    /\ isCustomerEditModalOpen = FALSE
    /\ selectedCustomerForEdit = Null
    /\ ops = {}
    /\ last = Event("init", Null, Null)
    /\ issued = {}
    /\ InitialView
    /\ currentTime = FirstTick
    /\ timeZone \in TimeZones

\* ------------------------------------------------------------- the store
\* The store replaces the serverTimestamp() sentinel by its clock.  The
\* program compares timestamps within one collection only, so the clock is
\* read per collection: the k-th document written there gets time k, which
\* is also the fresh id it is given.
WithServerTime(data, now) ==
    IF "createdAt" \in DOMAIN data /\ data.createdAt = ServerTimestamp
    THEN [data EXCEPT !.createdAt = now] ELSE data

\* A stored document: the data, the store-assigned id, and the namespace
\* (users/{uid}) of the collection it was created in.
Document(id, uid, data) ==
    [f \in DOMAIN data \cup {"id", "owner"} |->
        IF f = "id" THEN id ELSE IF f = "owner" THEN uid ELSE data[f]]

\* updateDoc: the fields given replace the stored ones, the others stay.
Merge(doc, upd) ==
    [f \in DOMAIN doc |-> IF f \in DOMAIN upd THEN upd[f] ELSE doc[f]]

PoliciesOf(uid) == {d \in storePolicies : d.owner = uid}
LedgerOf(uid) == {d \in storeLedger : d.owner = uid}

Listener(coll, uid) == [coll |-> coll, uid |-> uid]

\* ------------------------------------------------------------ notifications
Notify(m) == modalMessage' = m /\ showModal' = TRUE

CanIssue == Cardinality(ops) < MaxInFlight

Step(kind, input, op, reqs) == last' = Event(kind, input, op) /\ issued' = reqs

\* ------------------------------------------------- subscriptions (effects)
\* return () => unsubscribe(): the cleanup of the effects' previous run.
Cleanup(ls, prevUid) ==
    ls \ {Listener("policies", prevUid), Listener("payments_expenses", prevUid)}

\* The two subscription effects (lines 1010-1038, 1041-1068), re-run when
\* userId or isAuthReady changes: cleanup first, then the effect bodies.
EffectListeners(ls, prevUid, uid) ==
    IF uid = NoUser THEN Cleanup(ls, prevUid)
    ELSE Cleanup(ls, prevUid)
            \cup {Listener("policies", uid), Listener("payments_expenses", uid)}

RunEffects(prevUid, uid) ==
    /\ listeners' = EffectListeners(listeners, prevUid, uid)
    /\ IF uid = NoUser
       THEN /\ policies' = <<>>
            /\ loadingPolicies' = FALSE
            /\ paymentsExpenses' = <<>>
            /\ loadingPaymentsExpenses' = FALSE
       ELSE /\ loadingPolicies' = TRUE
            /\ loadingPaymentsExpenses' = TRUE
            /\ UNCHANGED <<policies, paymentsExpenses>>

\* onAuthStateChanged callback (lines 1001-1005) and the effects it re-runs.
AuthStateChanged ==
    /\ authPending
    /\ authPending' = FALSE
    /\ user' = authUser
    /\ userId' = authUser
    /\ isAuthReady' = TRUE
    /\ IF authUser # userId \/ ~isAuthReady
       THEN RunEffects(userId, authUser)
       ELSE UNCHANGED <<listeners, cacheVars>>
    /\ Step("onAuthStateChanged", Null, Null, {})
    /\ UNCHANGED <<viewVars, authUser, storeVars, authMessage, modalVars, editVars, ops>>

\* onSnapshot success callback of the policies listener (lines 1022-1029).
PoliciesSnapshot ==
    /\ \E l \in listeners :
        /\ l.coll = "policies"
        /\ LET fetchedPolicies == SortByCreatedAtDesc(PoliciesOf(l.uid))
           IN  /\ policies # fetchedPolicies \/ loadingPolicies
               /\ policies' = fetchedPolicies
    /\ loadingPolicies' = FALSE
    /\ Step("policiesSnapshot", Null, Null, {})
    /\ UNCHANGED <<viewVars, authVars, storeVars, listeners, authMessage, modalVars,
                   paymentsExpenses, loadingPaymentsExpenses, editVars, ops>>

\* onSnapshot success callback of the payments_expenses listener
\* (lines 1053-1059).
PaymentsExpensesSnapshot ==
    /\ \E l \in listeners :
        /\ l.coll = "payments_expenses"
        /\ LET fetched == InIdOrder(LedgerOf(l.uid))
           IN  /\ paymentsExpenses # fetched \/ loadingPaymentsExpenses
               /\ paymentsExpenses' = fetched
    /\ loadingPaymentsExpenses' = FALSE
    /\ Step("paymentsExpensesSnapshot", Null, Null, {})
    /\ UNCHANGED <<viewVars, authVars, storeVars, listeners, authMessage, modalVars,
                   policies, loadingPolicies, editVars, ops>>

\* onSnapshot error callback of the policies listener (lines 1030-1035).
PoliciesSnapshotError ==
    /\ \E l \in listeners : l.coll = "policies"
    /\ \E e \in ErrorMessages : Notify(Msg("Error fetching policies", e))
    /\ loadingPolicies' = FALSE
    /\ Step("policiesSnapshotError", Null, Null, {})
    /\ UNCHANGED <<viewVars, authVars, storeVars, listeners, authMessage, policies,
                   paymentsExpenses, loadingPaymentsExpenses, editVars, ops>>

\* onSnapshot error callback of the payments_expenses listener
\* (lines 1060-1065).
PaymentsExpensesSnapshotError ==
    /\ \E l \in listeners : l.coll = "payments_expenses"
    /\ \E e \in ErrorMessages : Notify(Msg("Error fetching payments/expenses", e))
    /\ loadingPaymentsExpenses' = FALSE
    /\ Step("paymentsExpensesSnapshotError", Null, Null, {})
    /\ UNCHANGED <<viewVars, authVars, storeVars, listeners, authMessage, policies,
                   loadingPolicies, paymentsExpenses, editVars, ops>>

\* Modal onClose (line 1687).
CloseModal ==
    /\ modalMessage # NoMessage
    /\ showModal' = FALSE
    /\ modalMessage' = NoMessage
    /\ Step("closeModal", Null, Null, {})
    /\ UNCHANGED <<viewVars, authVars, storeVars, listeners, authMessage, cacheVars,
                   editVars, ops>>

\* ------------------------------------------------------ login and logout
\* handleAuth up to its await (lines 1072-1082); the login form is on
\* screen when no user is signed in (line 1637).
handleAuth ==
    /\ isAuthReady /\ user = NoUser
    /\ CanIssue
    /\ authMessage' = NoMessage
    /\ \E isLogin \in BOOLEAN, u \in Users :
        LET op == [kind |-> "auth", isLogin |-> isLogin, account |-> u]
        IN  ops' = ops \cup {op} /\ Step("handleAuth", Null, Some(op), {})
    /\ UNCHANGED <<viewVars, authVars, storeVars, listeners, modalVars, cacheVars, editVars>>

\* The identity service answers handleAuth; lines 1078/1081 or 1083-1086.
AuthResolved ==
    \E op \in ops :
        /\ op.kind = "auth"
        /\ ops' = ops \ {op}
        /\ \/ /\ authUser' = op.account
              /\ authPending' = TRUE
              /\ authMessage' = IF op.isLogin
                                THEN Msg("Logged in successfully!", "")
                                ELSE Msg("Registered and logged in successfully!", "")
              /\ Step("authSucceeded", Null, Some(op), {})
           \/ /\ \E e \in ErrorMessages : authMessage' = Msg("Error", e)
              /\ Step("authFailed", Null, Some(op), {})
              /\ UNCHANGED <<authUser, authPending>>
        /\ UNCHANGED <<viewVars, user, userId, isAuthReady, storeVars, listeners,
                       modalVars, cacheVars, editVars>>

\* handleLogout up to its await (lines 1090-1092); the Logout button is
\* rendered for a signed-in user (line 1431).
Logout(inFlight) ==
    /\ LoggedIn
    /\ Cardinality(ops) < inFlight
    /\ LET op == [kind |-> "logout"]
       IN  ops' = ops \cup {op} /\ Step("handleLogout", Null, Some(op), {})
    /\ UNCHANGED <<viewVars, authVars, storeVars, listeners, authMessage, modalVars,
                   cacheVars, editVars>>

handleLogout == Logout(MaxInFlight)

\* The Logout button clicked while another handler awaits the store.
handleLogoutMeanwhile == Logout(MaxInFlight + 1)

\* signOut answers; lines 1093-1096 or 1097-1100.
LogoutResolved ==
    \E op \in ops :
        /\ op.kind = "logout"
        /\ ops' = ops \ {op}
        /\ \/ /\ authUser' = NoUser
              /\ authPending' = (authUser # NoUser \/ authPending)
              /\ authMessage' = Msg("Logged out successfully!", "")
              /\ policies' = <<>>
              /\ paymentsExpenses' = <<>>
              /\ Step("logoutSucceeded", Null, Some(op), {})
           \/ /\ \E e \in ErrorMessages : authMessage' = Msg("Error logging out", e)
              /\ Step("logoutFailed", Null, Some(op), {})
              /\ UNCHANGED <<authUser, authPending, policies, paymentsExpenses>>
        /\ UNCHANGED <<viewVars, user, userId, isAuthReady, storeVars, listeners,
                       modalVars, loadingPolicies, loadingPaymentsExpenses,
                       editVars>>

\* ------------------------------------------------------------- add policy
\* The required-field test of handleAddPolicy (line 1116).
RequiredMissing(f) ==
    \/ f.policyNumber = ""
    \/ f.totalAmount = Empty
    \/ f.policyDate = ""
    \/ f.validUntil = ""
    \/ f.firstName = ""
    \/ f.lastName = ""

\* The document handleAddPolicy hands to addDoc (lines 1125-1146).
NewPolicyDoc(f) ==
    [policyType |-> f.policyType,
     policyDate |-> f.policyDate,
     validUntil |-> f.validUntil,
     totalAmount |-> parseFloat(f.totalAmount),
     commission |-> OrZero(parseFloat(f.commission)),
     policyNumber |-> f.policyNumber,
     vehicleNumber |-> f.vehicleNumber,
     insuranceType |-> f.insuranceType,
     paidByCustomer |-> f.paidByCustomer,
     paidToInsurer |-> f.paidToInsurer,
     customer |-> [firstName |-> f.firstName, lastName |-> f.lastName,
                   phoneNumber |-> f.phoneNumber, idNumber |-> f.idNumber,
                   address |-> f.address, city |-> f.city,
                   postalCode |-> f.postalCode],
     createdAt |-> ServerTimestamp]

PendingCreates(kind) == Cardinality({o \in ops : o.kind = kind})

\* handleAddPolicy up to its await (lines 1104-1125); the form is rendered
\* for a signed-in user.
AddPolicy(forms) ==
    /\ LoggedIn
    /\ authMessage' = NoMessage
    /\ \E f \in forms :
        IF userId = NoUser
        THEN /\ Notify(Msg("Error: Database not ready or user not authenticated. Please log in.", ""))
             /\ Step("addPolicyNotReady", Some(f), Null, {})
             /\ UNCHANGED ops
        ELSE IF RequiredMissing(f)
        THEN /\ Notify(Msg("Please fill in all required fields: Policy Number, Total Amount, Policy Date, Valid Until, Customer First Name, Customer Last Name.", ""))
             /\ Step("addPolicyInvalid", Some(f), Null, {})
             /\ UNCHANGED ops
        ELSE /\ CanIssue
             /\ nextPolicyId + PendingCreates("addPolicy") <= MaxPolicies
             /\ LET op == [kind |-> "addPolicy", uid |-> userId,
                           doc |-> NewPolicyDoc(f)]
                IN  /\ ops' = ops \cup {op}
                    /\ Step("handleAddPolicy", Some(f), Some(op),
                            {Req("create", "policies", userId, NoId, DOMAIN op.doc)})
             /\ UNCHANGED modalVars
    /\ UNCHANGED <<viewVars, authVars, storeVars, listeners, cacheVars, editVars>>

handleAddPolicy == AddPolicy(PolicyForms)

\* The same with the form filled in in one way.
handleAddPolicyBase == AddPolicy({BaseForm})

\* The same with the form filled in completely.
handleAddPolicyValid == AddPolicy(ValidForms)

\* The same, the ID Number filled in or left empty.
handleAddPolicyAnyId == AddPolicy(ValidForms \cup AnonymousForms)

\* The store answers addDoc; lines 1147-1153 or 1154-1158.
AddPolicyResolved ==
    \E op \in ops :
        /\ op.kind = "addPolicy"
        /\ ops' = ops \ {op}
        /\ \/ /\ storePolicies' = storePolicies
                    \cup {Document(nextPolicyId, op.uid, WithServerTime(op.doc, nextPolicyId))}
              /\ nextPolicyId' = nextPolicyId + 1
              /\ Notify(Msg("Policy added successfully!", ""))
              /\ Step("addPolicySucceeded", Null, Some(op), {})
           \/ /\ \E e \in ErrorMessages : Notify(Msg("Error adding policy", e))
              /\ Step("addPolicyFailed", Null, Some(op), {})
              /\ UNCHANGED <<storePolicies, nextPolicyId>>
        /\ UNCHANGED <<viewVars, authVars, storeLedger, nextEntryId, listeners,
                       authMessage, cacheVars, editVars>>

\* ------------------------------------------------------------ edit policy
\* formatDate (lines 1334-1338) on the YYYY-MM-DD text a date field holds:
\* the empty text stays empty, a date is printed back as the same day.
formatDate(dateString) == IF dateString = "" THEN "" ELSE dateString

\* What the user may have typed into the Edit Policy form before saving:
\* fields left out keep the value the modal was opened with.
PolicyEdits ==
    {[touched |-> {}, totalAmount |-> Empty, commission |-> Empty,
      idNumber |-> "", firstName |-> ""],
     [touched |-> {"totalAmount"}, totalAmount |-> Empty, commission |-> Empty,
      idNumber |-> "", firstName |-> ""],
     [touched |-> {"idNumber"}, totalAmount |-> Empty, commission |-> Empty,
      idNumber |-> "B2", firstName |-> ""],
     [touched |-> {"totalAmount", "commission", "firstName"}, totalAmount |-> T50,
      commission |-> T10, idNumber |-> "", firstName |-> "Dee"]}

\* What handleUpdatePolicy can be called with: the form as opened, the form
\* with an amount typed, and an object without id.
PolicyCalls ==
    {e \in PolicyEdits : e.touched = {}}
        \cup {[touched |-> {"totalAmount"}, totalAmount |-> T50,
               commission |-> Empty, idNumber |-> "", firstName |-> ""],
              [touched |-> {"id"}, totalAmount |-> Empty,
               commission |-> Empty, idNumber |-> "", firstName |-> ""]}

\* editPolicyData of EditPolicyModal (lines 587-615): the selected policy
\* with its dates formatted, then the typed fields; an untouched number
\* field still holds the stored number, which parseFloat reads as text.
EditPolicyData(policy, e) ==
    [policy EXCEPT
        !.id = IF "id" \in e.touched THEN NoId ELSE @,
        !.policyDate = formatDate(policy.policyDate),
        !.validUntil = formatDate(policy.validUntil),
        !.totalAmount = IF "totalAmount" \in e.touched THEN e.totalAmount
                        ELSE NumToText(policy.totalAmount),
        !.commission = IF "commission" \in e.touched THEN e.commission
                       ELSE NumToText(policy.commission),
        !.customer = [policy.customer EXCEPT
            !.idNumber = IF "idNumber" \in e.touched THEN e.idNumber ELSE @,
            !.firstName = IF "firstName" \in e.touched THEN e.firstName ELSE @]]

\* The fields handleUpdatePolicy hands to updateDoc (lines 1171-1191).
PolicyUpdateFields(updatedPolicy) ==
    [policyType |-> updatedPolicy.policyType,
     policyDate |-> updatedPolicy.policyDate,
     validUntil |-> updatedPolicy.validUntil,
     totalAmount |-> parseFloat(updatedPolicy.totalAmount),
     commission |-> OrZero(parseFloat(updatedPolicy.commission)),
     policyNumber |-> updatedPolicy.policyNumber,
     vehicleNumber |-> updatedPolicy.vehicleNumber,
     insuranceType |-> updatedPolicy.insuranceType,
     paidByCustomer |-> updatedPolicy.paidByCustomer,
     paidToInsurer |-> updatedPolicy.paidToInsurer,
     customer |-> [firstName |-> updatedPolicy.customer.firstName,
                   lastName |-> updatedPolicy.customer.lastName,
                   phoneNumber |-> updatedPolicy.customer.phoneNumber,
                   idNumber |-> updatedPolicy.customer.idNumber,
                   address |-> updatedPolicy.customer.address,
                   city |-> updatedPolicy.customer.city,
                   postalCode |-> updatedPolicy.customer.postalCode]]

\* An Edit click that opens the modal and selects nothing.
C29_OpenedUnselected ==
    /\ LoggedIn /\ ~loadingPolicies
    /\ policies # <<>>
    /\ isPolicyEditModalOpen' = TRUE
    /\ Step("handleEditPolicyClick", Null, Null, {})
    /\ UNCHANGED <<viewVars, authVars, storeVars, listeners, authMessage, modalVars,
                   cacheVars, selectedPolicyForEdit, isCustomerEditModalOpen,
                   selectedCustomerForEdit, ops>>

\* handleEditPolicyClick (lines 1587-1590), from the Edit button of a row of
\* the policy table (line 525).
handleEditPolicyClick ==
    /\ LoggedIn /\ ~loadingPolicies
    /\ \E policy \in Range(policies) :
        /\ selectedPolicyForEdit' = Some(policy)
        /\ isPolicyEditModalOpen' = TRUE
    /\ Step("handleEditPolicyClick", Null, Null, {})
    /\ UNCHANGED <<viewVars, authVars, storeVars, listeners, authMessage, modalVars,
                   cacheVars, isCustomerEditModalOpen, selectedCustomerForEdit,
                   ops>>

\* EditPolicyModal onClose (line 1600).
ClosePolicyEditModal ==
    /\ LoggedIn /\ isPolicyEditModalOpen
    /\ isPolicyEditModalOpen' = FALSE
    /\ Step("closePolicyEditModal", Null, Null, {})
    /\ UNCHANGED <<viewVars, authVars, storeVars, listeners, authMessage, modalVars,
                   cacheVars, selectedPolicyForEdit, isCustomerEditModalOpen,
                   selectedCustomerForEdit, ops>>

\* handleUpdatePolicy up to its await (lines 1162-1171), from the Save
\* button of the open EditPolicyModal (lines 1597-1604, 617-622).
UpdatePolicy(edits) ==
    /\ LoggedIn /\ isPolicyEditModalOpen /\ selectedPolicyForEdit # Null
    /\ \E e \in edits :
        LET updatedPolicy == EditPolicyData(selectedPolicyForEdit[1], e)
        IN  IF userId = NoUser \/ updatedPolicy.id = NoId
            THEN /\ Notify(Msg("Error: Database not ready or policy ID missing.", ""))
                 /\ Step("updatePolicyNotReady", Some(e), Null, {})
                 /\ UNCHANGED ops
            ELSE /\ CanIssue
                 /\ LET op == [kind |-> "updatePolicy", uid |-> userId,
                               id |-> updatedPolicy.id,
                               fields |-> PolicyUpdateFields(updatedPolicy)]
                    IN  /\ ops' = ops \cup {op}
                        /\ Step("handleUpdatePolicy", Some(e), Some(op),
                                {Req("update", "policies", userId, op.id,
                                     DOMAIN op.fields)})
                 /\ UNCHANGED modalVars
    /\ UNCHANGED <<viewVars, authVars, storeVars, listeners, authMessage, cacheVars, editVars>>

handleUpdatePolicy == UpdatePolicy(PolicyEdits)

\* The same called with any object.
handleUpdatePolicyCall == UpdatePolicy(PolicyCalls)

\* The same with the numbers and the names left as the modal shows them.
handleUpdatePolicyAsShown ==
    UpdatePolicy({e \in PolicyEdits : e.touched = {}})

\* The store answers updateDoc (it rejects an update of a missing
\* document); lines 1192-1195 or 1196-1200.
UpdatePolicyResolved ==
    \E op \in ops :
        /\ op.kind = "updatePolicy"
        /\ ops' = ops \ {op}
        /\ \/ \E d \in PoliciesOf(op.uid) :
                /\ d.id = op.id
                /\ storePolicies' = (storePolicies \ {d})
                        \cup {Merge(d, WithServerTime(op.fields, nextPolicyId))}
                /\ Notify(Msg("Policy updated successfully!", ""))
                /\ isPolicyEditModalOpen' = FALSE
                /\ selectedPolicyForEdit' = Null
                /\ Step("updatePolicySucceeded", Null, Some(op), {})
           \/ /\ \E e \in ErrorMessages : Notify(Msg("Error updating policy", e))
              /\ Step("updatePolicyFailed", Null, Some(op), {})
              /\ UNCHANGED <<storePolicies, isPolicyEditModalOpen, selectedPolicyForEdit>>
        /\ UNCHANGED <<viewVars, authVars, storeLedger, nextPolicyId, nextEntryId,
                       listeners, authMessage, cacheVars,
                       isCustomerEditModalOpen, selectedCustomerForEdit>>

\* ---------------------------------------------------------- edit customer
\* uniqueCustomers / customersList of CustomerManagement (lines 834-863):
\* one row per idNumber in order of first appearance.
RECURSIVE uniqueCustomers(_, _)
uniqueCustomers(ps, acc) ==
    IF ps = <<>> THEN acc
    ELSE LET policy == Head(ps)
             idn == policy.customer.idNumber
             ref == [id |-> policy.id, policyNumber |-> policy.policyNumber,
                     policyType |-> policy.policyType,
                     totalAmount |-> policy.totalAmount,
                     policyDate |-> policy.policyDate]
             fresh == [idNumber |-> idn,
                       firstName |-> policy.customer.firstName,
                       lastName |-> policy.customer.lastName,
                       phoneNumber |-> policy.customer.phoneNumber,
                       address |-> policy.customer.address,
                       city |-> policy.customer.city,
                       postalCode |-> policy.customer.postalCode,
                       policiesCount |-> 0, totalPolicyValue |-> Num(0),
                       associatedPolicies |-> <<>>]
             known == \E i \in DOMAIN acc : acc[i].idNumber = idn
             acc1 == IF known THEN acc ELSE Append(acc, fresh)
             acc2 == [i \in DOMAIN acc1 |->
                        IF acc1[i].idNumber = idn
                        THEN [acc1[i] EXCEPT
                                !.policiesCount = @ + 1,
                                !.totalPolicyValue = Plus(@, Amount(policy.totalAmount)),
                                !.associatedPolicies = Append(@, ref)]
                        ELSE acc1[i]]
         IN  IF idn = "" THEN uniqueCustomers(Tail(ps), acc)
             ELSE uniqueCustomers(Tail(ps), acc2)

\* The accumulator starts as {} (line 862), which inherits the properties of
\* Object.prototype: acc[key] finds them though acc has none of its own.
ObjectPrototypeKeys ==
    {"constructor", "hasOwnProperty", "isPrototypeOf", "propertyIsEnumerable",
     "toLocaleString", "toString", "valueOf", "__proto__"}

\* On a policy whose idNumber names an inherited property, !acc[idNumber] is
\* false, no row is made, and acc[idNumber].associatedPolicies.push throws
\* a TypeError (lines 836-852).
uniqueCustomersThrows(ps) ==
    \E i \in DOMAIN ps : ps[i].customer.idNumber \in ObjectPrototypeKeys

\* Object.values(uniqueCustomers); a render that throws shows no row.
customersList(ps) ==
    IF uniqueCustomersThrows(ps) THEN <<>> ELSE uniqueCustomers(ps, <<>>)

\* What the user may have typed into the Edit Customer form (the idNumber
\* input is disabled, line 798).
CustomerEdits ==
    {[firstName |-> "Eve", lastName |-> "Roe", phoneNumber |-> "555",
      address |-> "Main 1", city |-> "Sofia", postalCode |-> "1000",
      idNumber |-> Null]}

\* What handleUpdateCustomer can be called with besides: an object whose
\* idNumber is empty.
CustomerCalls ==
    CustomerEdits \cup {[e EXCEPT !.idNumber = Some("")] : e \in CustomerEdits}

\* editCustomerData of EditCustomerModal (lines 753-766).
EditCustomerData(customer, e) ==
    [customer EXCEPT !.firstName = e.firstName, !.lastName = e.lastName,
                     !.phoneNumber = e.phoneNumber, !.address = e.address,
                     !.city = e.city, !.postalCode = e.postalCode,
                     !.idNumber = IF e.idNumber = Null THEN @ ELSE e.idNumber[1]]

\* The dotted fields of one fan-out updateDoc (lines 1215-1222).
CustomerUpdateFields(updatedCustomer) ==
    [firstName |-> updatedCustomer.firstName,
     lastName |-> updatedCustomer.lastName,
     phoneNumber |-> updatedCustomer.phoneNumber,
     address |-> updatedCustomer.address,
     city |-> updatedCustomer.city,
     postalCode |-> updatedCustomer.postalCode]

\* The field paths of that updateDoc: 'customer.firstName', ...
DottedCustomerFields(fields) == {"customer." \o f : f \in DOMAIN fields}

\* The policies handleUpdateCustomer writes to: those of the Policies cache
\* whose customer.idNumber is the edited one (lines 1212-1213).
FanOutTargets(cache, idNumber) ==
    {cache[i].id : i \in {j \in DOMAIN cache : cache[j].customer.idNumber = idNumber}}

\* handleEditCustomerClick (lines 865-868).
handleEditCustomerClick ==
    /\ LoggedIn /\ ~loadingPolicies
    /\ \E customer \in Range(customersList(policies)) :
        /\ selectedCustomerForEdit' = Some(customer)
        /\ isCustomerEditModalOpen' = TRUE
    /\ Step("handleEditCustomerClick", Null, Null, {})
    /\ UNCHANGED <<viewVars, authVars, storeVars, listeners, authMessage, modalVars,
                   cacheVars, isPolicyEditModalOpen, selectedPolicyForEdit, ops>>

\* EditCustomerModal onClose (line 1633).
CloseCustomerEditModal ==
    /\ LoggedIn /\ isCustomerEditModalOpen
    /\ isCustomerEditModalOpen' = FALSE
    /\ Step("closeCustomerEditModal", Null, Null, {})
    /\ UNCHANGED <<viewVars, authVars, storeVars, listeners, authMessage, modalVars,
                   cacheVars, isPolicyEditModalOpen, selectedPolicyForEdit,
                   selectedCustomerForEdit, ops>>

CustomerUpdated ==
    /\ Notify(Msg("Customer details updated successfully across all associated policies!", ""))
    /\ isCustomerEditModalOpen' = FALSE
    /\ selectedCustomerForEdit' = Null

\* handleUpdateCustomer up to await Promise.all (lines 1204-1227): every
\* updateDoc of the fan-out is issued before the handler suspends; with no
\* matching policy Promise.all resolves at once (lines 1229-1232).
UpdateCustomer(edits) ==
    /\ LoggedIn /\ isCustomerEditModalOpen /\ selectedCustomerForEdit # Null
    /\ \E e \in edits :
        LET updatedCustomer == EditCustomerData(selectedCustomerForEdit[1], e)
            input == Some([idNumber |-> updatedCustomer.idNumber])
            op == [kind |-> "updateCustomer", uid |-> userId,
                   idNumber |-> updatedCustomer.idNumber,
                   fields |-> CustomerUpdateFields(updatedCustomer),
                   targets |-> FanOutTargets(policies, updatedCustomer.idNumber),
                   failed |-> FALSE]
            reqs == {Req("update", "policies", userId, id,
                         DottedCustomerFields(op.fields)) : id \in op.targets}
        IN  IF userId = NoUser \/ updatedCustomer.idNumber = ""
            THEN /\ Notify(Msg("Error: Database not ready or customer ID Number missing.", ""))
                 /\ Step("updateCustomerNotReady", input, Null, {})
                 /\ UNCHANGED <<ops, isCustomerEditModalOpen, selectedCustomerForEdit>>
            ELSE IF op.targets = {}
            THEN /\ CustomerUpdated
                 /\ Step("updateCustomerSucceeded", input, Some(op), {})
                 /\ UNCHANGED ops
            ELSE /\ CanIssue
                 /\ ops' = ops \cup {op}
                 /\ Step("handleUpdateCustomer", input, Some(op), reqs)
                 /\ UNCHANGED <<modalVars, isCustomerEditModalOpen, selectedCustomerForEdit>>
    /\ UNCHANGED <<viewVars, authVars, storeVars, listeners, authMessage, cacheVars,
                   isPolicyEditModalOpen, selectedPolicyForEdit>>

handleUpdateCustomer == UpdateCustomer(CustomerEdits)

\* The same called with any object.
handleUpdateCustomerCall == UpdateCustomer(CustomerCalls)

\* Promise.all over the writes still pending: it fulfils when the last one
\* has succeeded and none has failed.
AllFulfilled(pending, failed) == pending = {} /\ ~failed

\* What is left of a fan-out once one answer is in: the operation stays
\* until every request it issued is answered.
Remaining(op, pending, failed) ==
    IF pending = {} THEN {} ELSE {[op EXCEPT !.targets = pending, !.failed = failed]}

\* The store answers one updateDoc of the fan-out; the handler continues
\* at lines 1229-1232 when all have succeeded, at 1233-1237 on the first
\* failure.  The other writes are neither cancelled nor undone.
CustomerWriteResolved ==
    \E op \in {o \in ops : o.kind = "updateCustomer"} : \E id \in op.targets :
        /\ LET pending == op.targets \ {id}
           IN  \/ \E d \in PoliciesOf(op.uid) :
                    /\ d.id = id
                    /\ storePolicies' = (storePolicies \ {d})
                            \cup {[d EXCEPT !.customer = Merge(d.customer, op.fields)]}
                    /\ ops' = (ops \ {op}) \cup Remaining(op, pending, op.failed)
                    /\ IF AllFulfilled(pending, op.failed)
                       THEN /\ CustomerUpdated
                            /\ Step("updateCustomerSucceeded", Null, Some(op), {})
                       ELSE /\ Step("customerWriteApplied", Null, Some(op), {})
                            /\ UNCHANGED <<modalVars, isCustomerEditModalOpen,
                                           selectedCustomerForEdit>>
               \/ /\ ops' = (ops \ {op}) \cup Remaining(op, pending, TRUE)
                  /\ IF ~op.failed
                     THEN /\ \E e \in ErrorMessages :
                                Notify(Msg("Error updating customer", e))
                          /\ Step("updateCustomerFailed", Null, Some(op), {})
                     ELSE /\ Step("customerWriteFailed", Null, Some(op), {})
                          /\ UNCHANGED modalVars
                  /\ UNCHANGED <<storePolicies, isCustomerEditModalOpen,
                                 selectedCustomerForEdit>>
        /\ UNCHANGED <<viewVars, authVars, storeLedger, nextPolicyId, nextEntryId,
                       listeners, authMessage, cacheVars,
                       isPolicyEditModalOpen, selectedPolicyForEdit>>

\* ----------------------------------------------------- payments / expenses
\* The Add Payment/Expense form state (lines 990-994); the policy dropdown
\* offers the policies of the cache (AddPaymentExpenseForm) or no policy.
PaymentForms(cache) ==
    {[type |-> "Payment", date |-> "2024-02-01", amount |-> T50, reason |-> "",
      selectedPolicyForPayment |-> sel] :
        sel \in {Null} \cup {Some(cache[i].id) : i \in DOMAIN cache}}

ExpenseForms ==
    {[type |-> "Expense", date |-> "2024-02-01", amount |-> T10,
      reason |-> "rent", selectedPolicyForPayment |-> Null]}

InvalidEntryForms ==
    {[type |-> "Payment", date |-> "", amount |-> T50, reason |-> "",
      selectedPolicyForPayment |-> Null],
     [type |-> "Payment", date |-> "2024-02-01", amount |-> Empty,
      reason |-> "", selectedPolicyForPayment |-> Null],
     [type |-> "", date |-> "2024-02-01", amount |-> T50, reason |-> "",
      selectedPolicyForPayment |-> Null]}

EntryForms(cache) == PaymentForms(cache) \cup ExpenseForms \cup InvalidEntryForms

\* The required-field test of handleAddPaymentExpense (line 1249).
EntryRequiredMissing(f) == f.date = "" \/ f.amount = Empty \/ f.type = ""

\* selectedPolicyForPayment || null (line 1262): the dropdown's empty value
\* is falsy and stored as null.
SelectedOrNull(sel) == IF sel = Null THEN NoId ELSE sel[1]

\* The document handleAddPaymentExpense hands to addDoc (lines 1257-1264).
NewEntryDoc(f) ==
    [type |-> f.type,
     date |-> f.date,
     amount |-> parseFloat(f.amount),
     reason |-> f.reason,
     policyId |-> SelectedOrNull(f.selectedPolicyForPayment),
     createdAt |-> ServerTimestamp]

\* handleAddPaymentExpense up to its await (lines 1241-1257).
AddPaymentExpense(forms) ==
    /\ LoggedIn
    /\ \E f \in forms :
        IF userId = NoUser
        THEN /\ Notify(Msg("Error: Database not ready or user not authenticated. Please log in.", ""))
             /\ Step("addPaymentExpenseNotReady", Some(f), Null, {})
             /\ UNCHANGED ops
        ELSE IF EntryRequiredMissing(f)
        THEN /\ Notify(Msg("Please fill in Date, Amount, and Type for the payment/expense.", ""))
             /\ Step("addPaymentExpenseInvalid", Some(f), Null, {})
             /\ UNCHANGED ops
        ELSE /\ CanIssue
             /\ nextEntryId + PendingCreates("addPaymentExpense") <= MaxEntries
             /\ LET op == [kind |-> "addPaymentExpense", uid |-> userId,
                           entry |-> NewEntryDoc(f)]
                IN  /\ ops' = ops \cup {op}
                    /\ Step("handleAddPaymentExpense", Some(f), Some(op),
                            {Req("create", "payments_expenses", userId, NoId,
                                 DOMAIN op.entry)})
             /\ UNCHANGED modalVars
    /\ UNCHANGED <<viewVars, authVars, storeVars, listeners, authMessage, cacheVars, editVars>>

handleAddPaymentExpense == AddPaymentExpense(EntryForms(policies))

\* The same with a payment, linked to a listed policy or to none.
handleAddPayment == AddPaymentExpense(PaymentForms(policies))

\* The store answers addDoc; lines 1265-1272 or 1273-1277.
AddPaymentExpenseResolved ==
    \E op \in ops :
        /\ op.kind = "addPaymentExpense"
        /\ ops' = ops \ {op}
        /\ \/ /\ storeLedger' = storeLedger
                    \cup {Document(nextEntryId, op.uid, WithServerTime(op.entry, nextEntryId))}
              /\ nextEntryId' = nextEntryId + 1
              /\ Notify(Msg(op.entry.type \o " added successfully!", ""))
              /\ Step("addPaymentExpenseSucceeded", Null, Some(op), {})
           \/ /\ \E e \in ErrorMessages :
                    Notify(Msg("Error adding " \o op.entry.type, e))
              /\ Step("addPaymentExpenseFailed", Null, Some(op), {})
              /\ UNCHANGED <<storeLedger, nextEntryId>>
        /\ UNCHANGED <<viewVars, authVars, storePolicies, nextPolicyId, listeners,
                       authMessage, cacheVars, editVars>>

\* ----------------------------------------------------------- delete policy
\* window.confirm (lines 1287, 1318): the handler goes on only on OK.
Confirmed(answer) == answer

\* relatedPaymentsExpenses (line 1294): the entries of the ledger cache
\* linked to the policy.  paymentsExpenses is the constant the handler's
\* closure holds, the cache as rendered when the handler was invoked, so
\* the list is fixed at the invocation although line 1294 runs after the
\* await.
RelatedPaymentsExpenses(cache, policyId) ==
    {cache[i].id : i \in {j \in DOMAIN cache : cache[j].policyId = policyId}}

\* handleDeletePolicy up to its first await (lines 1281-1291), from the
\* Delete button of a row of the policy table (line 526).
DeletePolicy(answers) ==
    /\ LoggedIn /\ ~loadingPolicies
    /\ \E policy \in Range(policies), answer \in answers :
        LET input == Some([id |-> policy.id, answer |-> answer]) IN
        IF userId = NoUser
        THEN /\ Notify(Msg("Error: Database not ready or user not authenticated.", ""))
             /\ Step("deletePolicyNotReady", input, Null, {})
             /\ UNCHANGED ops
        ELSE IF ~Confirmed(answer)
        THEN /\ Step("deletePolicyDeclined", input, Null, {})
             /\ UNCHANGED <<ops, modalVars>>
        ELSE /\ CanIssue
             /\ LET op == [kind |-> "deletePolicy", uid |-> userId,
                           id |-> policy.id, phase |-> "policy",
                           related |-> RelatedPaymentsExpenses(paymentsExpenses, policy.id),
                           targets |-> {}, failed |-> FALSE]
                IN  /\ ops' = ops \cup {op}
                    /\ Step("handleDeletePolicy", input, Some(op),
                            {Req("delete", "policies", userId, policy.id, {})})
             /\ UNCHANGED modalVars
    /\ UNCHANGED <<viewVars, authVars, storeVars, listeners, authMessage, cacheVars, editVars>>

handleDeletePolicy == DeletePolicy(BOOLEAN)

\* The same with the dialog answered OK.
handleDeletePolicyOK == DeletePolicy({TRUE})

\* The store answers the policy's deleteDoc.  On success the handler goes
\* on to the cascade (lines 1294-1299), which with nothing to delete ends
\* at once in the success message (lines 1301-1302); on failure it ends in
\* the catch (lines 1303-1307).
DeletePolicyResolved ==
    \E op \in {o \in ops : o.kind = "deletePolicy"} :
        /\ op.phase = "policy"
        /\ \/ LET related == op.related
                  reqs == {Req("delete", "payments_expenses", op.uid, id, {}) :
                              id \in related}
              IN  /\ storePolicies' = {d \in storePolicies :
                                          ~(d.owner = op.uid /\ d.id = op.id)}
                  /\ IF related = {}
                     THEN /\ ops' = ops \ {op}
                          /\ Notify(Msg("Policy and associated items deleted successfully!", ""))
                          /\ Step("deletePolicySucceeded", Null, Some(op), {})
                     ELSE /\ ops' = (ops \ {op})
                                \cup {[op EXCEPT !.phase = "cascade", !.targets = related]}
                          /\ Step("deletePolicyCascade", Null, Some(op), reqs)
                          /\ UNCHANGED modalVars
           \/ /\ ops' = ops \ {op}
              /\ \E e \in ErrorMessages : Notify(Msg("Error deleting policy", e))
              /\ Step("deletePolicyFailed", Null, Some(op), {})
              /\ UNCHANGED storePolicies
        /\ UNCHANGED <<viewVars, authVars, storeLedger, nextPolicyId, nextEntryId,
                       listeners, authMessage, cacheVars, editVars>>

\* The store answers one deleteDoc of the cascade; the handler continues at
\* lines 1301-1302 when all have succeeded, at 1303-1307 on the first
\* failure.  The other deletes are neither cancelled nor undone.
CascadeDeleteResolved ==
    \E op \in {o \in ops : o.kind = "deletePolicy"} : \E id \in op.targets :
        /\ op.phase = "cascade"
        /\ LET pending == op.targets \ {id}
           IN  \/ /\ storeLedger' = {d \in storeLedger :
                                        ~(d.owner = op.uid /\ d.id = id)}
                  /\ ops' = (ops \ {op}) \cup Remaining(op, pending, op.failed)
                  /\ IF AllFulfilled(pending, op.failed)
                     THEN /\ Notify(Msg("Policy and associated items deleted successfully!", ""))
                          /\ Step("deletePolicySucceeded", Null, Some(op), {})
                     ELSE /\ Step("cascadeDeleteApplied", Null, Some(op), {})
                          /\ UNCHANGED modalVars
               \/ /\ ops' = (ops \ {op}) \cup Remaining(op, pending, TRUE)
                  /\ IF ~op.failed
                     THEN /\ \E e \in ErrorMessages :
                                Notify(Msg("Error deleting policy", e))
                          /\ Step("deletePolicyFailed", Null, Some(op), {})
                     ELSE /\ Step("cascadeDeleteFailed", Null, Some(op), {})
                          /\ UNCHANGED modalVars
                  /\ UNCHANGED storeLedger
        /\ UNCHANGED <<viewVars, authVars, storePolicies, nextPolicyId, nextEntryId,
                       listeners, authMessage, cacheVars, editVars>>

\* ------------------------------------------------- delete payment / expense
\* handleDeletePaymentExpense up to its await (lines 1312-1322), from the
\* Delete button of an entry listed under its policy's expanded row
\* (lines 533-561).
handleDeletePaymentExpense ==
    /\ LoggedIn /\ ~loadingPolicies /\ ~loadingPaymentsExpenses
    /\ \E item \in Range(paymentsExpenses), answer \in BOOLEAN :
        /\ \E policy \in Range(policies) : item.policyId = policy.id
        /\ LET input == Some([id |-> item.id, answer |-> answer]) IN
           IF userId = NoUser
           THEN /\ Notify(Msg("Error: Database not ready or user not authenticated.", ""))
                /\ Step("deletePaymentExpenseNotReady", input, Null, {})
                /\ UNCHANGED ops
           ELSE IF ~Confirmed(answer)
           THEN /\ Step("deletePaymentExpenseDeclined", input, Null, {})
                /\ UNCHANGED <<ops, modalVars>>
           ELSE /\ CanIssue
                /\ LET op == [kind |-> "deletePaymentExpense", uid |-> userId,
                              id |-> item.id, type |-> item.type]
                   IN  /\ ops' = ops \cup {op}
                       /\ Step("handleDeletePaymentExpense", input, Some(op),
                               {Req("delete", "payments_expenses", userId, item.id, {})})
                /\ UNCHANGED modalVars
    /\ UNCHANGED <<viewVars, authVars, storeVars, listeners, authMessage, cacheVars, editVars>>

\* The store answers deleteDoc; lines 1323-1324 or 1325-1329.
DeletePaymentExpenseResolved ==
    \E op \in ops :
        /\ op.kind = "deletePaymentExpense"
        /\ ops' = ops \ {op}
        /\ \/ /\ storeLedger' = {d \in storeLedger :
                                    ~(d.owner = op.uid /\ d.id = op.id)}
              /\ Notify(Msg(op.type \o " deleted successfully!", ""))
              /\ Step("deletePaymentExpenseSucceeded", Null, Some(op), {})
           \/ /\ \E e \in ErrorMessages : Notify(Msg("Error deleting " \o op.type, e))
              /\ Step("deletePaymentExpenseFailed", Null, Some(op), {})
              /\ UNCHANGED storeLedger
        /\ UNCHANGED <<viewVars, authVars, storePolicies, nextPolicyId, nextEntryId,
                       listeners, authMessage, cacheVars, editVars>>

\* ---------------------------------------------------------- a returning user
\* Policies added in earlier sessions: the form each was added with, the
\* instant the store received it, and the validUntil it has now (the Edit
\* Policy form can clear it afterwards, handleUpdatePolicy validating
\* nothing).
StoredPolicies ==
    {[form |-> [BaseForm EXCEPT !.validUntil = "2024-01-02"],
      createdAt |-> 5, validUntil |-> "2024-01-02"],
     [form |-> [BaseForm EXCEPT !.totalAmount = T50, !.commission = T10,
                                !.policyNumber = "PN2",
                                !.validUntil = "2024-01-03",
                                !.paidToInsurer = TRUE],
      createdAt |-> 9, validUntil |-> "2024-01-03"],
     [form |-> [BaseForm EXCEPT !.idNumber = "B2", !.firstName = "Cy",
                                !.totalAmount = T30, !.commission = T10,
                                !.policyType = "Toll",
                                !.policyDate = "2024-01-02",
                                !.validUntil = "2024-01-01",
                                !.paidByCustomer = TRUE],
      createdAt |-> 10, validUntil |-> "2024-01-01"],
     [form |-> [BaseForm EXCEPT !.idNumber = "", !.firstName = "Bo",
                                !.totalAmount = Tabc, !.commission = Tabc],
      createdAt |-> 13, validUntil |-> ""],
     [form |-> [BaseForm EXCEPT !.idNumber = "constructor",
                                !.firstName = "Dee",
                                !.validUntil = "2024-01-03"],
      createdAt |-> 14, validUntil |-> "2024-01-03"]}

\* Ledger entries added in earlier sessions.
StoredEntries ==
    {[form |-> [type |-> "Expense", date |-> "2024-01-01", amount |-> T10,
                reason |-> "rent", selectedPolicyForPayment |-> Null],
      createdAt |-> 6],
     [form |-> [type |-> "Payment", date |-> "2024-01-02", amount |-> T50,
                reason |-> "", selectedPolicyForPayment |-> Null],
      createdAt |-> 9],
     [form |-> [type |-> "Expense", date |-> "2024-01-02", amount |-> T30,
                reason |-> "fuel", selectedPolicyForPayment |-> Null],
      createdAt |-> 10],
     [form |-> [type |-> "Expense", date |-> "2024-01-03", amount |-> Tabc,
                reason |-> "", selectedPolicyForPayment |-> Null],
      createdAt |-> 14]}

\* The store gives ids in the order of writing.
WrittenBefore(S, x) == Cardinality({y \in S : y.createdAt <= x.createdAt})

\* A session of u1 that starts on a store filled earlier: both subscriptions
\* live, no snapshot delivered yet.
StoredSession(maxPolicies, maxEntries) ==
    /\ authUser = "u1"
    /\ authPending = FALSE
    /\ \E S \in SUBSET StoredPolicies :
        /\ Cardinality(S) <= maxPolicies
        /\ storePolicies =
             {Merge(Document(WrittenBefore(S, p), "u1",
                             WithServerTime(NewPolicyDoc(p.form), p.createdAt)),
                    [validUntil |-> p.validUntil]) : p \in S}
        /\ nextPolicyId = Cardinality(S) + 1
    /\ \E S \in SUBSET StoredEntries :
        /\ Cardinality(S) <= maxEntries
        /\ storeLedger =
             {Document(WrittenBefore(S, e), "u1",
                       WithServerTime(NewEntryDoc(e.form), e.createdAt)) : e \in S}
        /\ nextEntryId = Cardinality(S) + 1
    /\ listeners = {Listener("policies", "u1"), Listener("payments_expenses", "u1")}
    /\ user = "u1"
    /\ userId = "u1"
    /\ isAuthReady = TRUE
    /\ authMessage = NoMessage
    /\ showModal = FALSE
    /\ modalMessage = NoMessage
    /\ policies = <<>>
    /\ loadingPolicies = TRUE
    /\ paymentsExpenses = <<>>
    /\ loadingPaymentsExpenses = TRUE
    /\ isPolicyEditModalOpen = FALSE
    /\ selectedPolicyForEdit = Null
    /\ isCustomerEditModalOpen = FALSE
    /\ selectedCustomerForEdit = Null
    /\ ops = {}
    /\ last = Event("init", Null, Null)
    /\ issued = {}
    /\ InitialView
    /\ currentTime = FirstTick
    /\ timeZone \in TimeZones

InitStored == StoredSession(MaxStored, MaxStored)

\* The same with no ledger entry stored.
InitStoredPolicies == InitStored /\ storeLedger = {}

\* The policy table is examined on up to MaxSorted stored policies: an order
\* that the comparator leaves open needs two equal keys, a key that is not a
\* number and a third key that differs.
InitSorted == StoredSession(MaxSorted, 0)

\* ---------------------------------------------------------------- the clock
Tick ==
    /\ currentTime < LastTick
    /\ currentTime' = currentTime + 1
    /\ Step("tick", Null, Null, {})
    /\ UNCHANGED <<authVars, storeVars, listeners, authMessage, modalVars,
                   cacheVars, editVars, ops, filterVars, sortVars, reportVars,
                   timeZone>>

\* A view control changed: nothing but view state changes.
ViewStep(kind, input) ==
    /\ LoggedIn
    /\ Step(kind, input, Null, {})
    /\ UNCHANGED <<authVars, storeVars, listeners, authMessage, modalVars,
                   cacheVars, editVars, ops, clockVars>>

\* ---------------------------------------------------------------- dashboard
\* Dashboard (lines 90-101) at the instant t in time zone z.
overduePolicies(ps, t, z) ==
    LET today == StartOfLocalDay(t, z)
    IN  SelectSeq(ps, LAMBDA policy :
            policy.validUntil # "" /\ NewDate(policy.validUntil) < today)

Dashboard(ps, t, z) ==
    [totalPolicies |-> Len(ps),
     totalPolicyValue |-> Sum([i \in DOMAIN ps |-> Amount(ps[i].totalAmount)]),
     totalCommission |-> Sum([i \in DOMAIN ps |-> Amount(ps[i].commission)]),
     policiesPaidByCustomer |->
        Len(SelectSeq(ps, LAMBDA policy : policy.paidByCustomer)),
     policiesPaidToInsurer |->
        Len(SelectSeq(ps, LAMBDA policy : policy.paidToInsurer)),
     overduePolicies |-> Len(overduePolicies(ps, t, z))]

\* ------------------------------------------------------- financial reports
\* The date inputs of FinancialReports (lines 192, 197); clearing an input
\* gives the empty string.
ReportDates == {"", "2024-01-01", "2024-01-02", "2024-01-03"}

setStartDate ==
    /\ \E d \in ReportDates :
        /\ startDate' = d
        /\ ViewStep("setStartDate", Some(d))
    /\ UNCHANGED <<filterVars, sortVars, endDate>>

setEndDate ==
    /\ \E d \in ReportDates :
        /\ endDate' = d
        /\ ViewStep("setEndDate", Some(d))
    /\ UNCHANGED <<filterVars, sortVars, startDate>>

\* The window test of the effect (lines 157-160, 164, 168).
InReportWindow(t, sd, ed, z) ==
    LET start == StartOfLocalDay(NewDate(sd), z)
        end == EndOfLocalDay(NewDate(ed), z)
    IN  t >= start /\ t <= end

\* filteredPoliciesReport as the effect sets it (lines 153-174).
filteredPoliciesReport(ps, sd, ed, z) ==
    IF sd # "" /\ ed # ""
    THEN SelectSeq(ps, LAMBDA policy :
            /\ policy.createdAt # ServerTimestamp
            /\ InReportWindow(policy.createdAt, sd, ed, z))
    ELSE ps

\* item.createdAt?.toDate() || new Date(item.date) (line 167).
itemDate(item) ==
    IF item.createdAt # ServerTimestamp THEN item.createdAt
    ELSE NewDate(item.date)

filteredPaymentsExpenses(es, sd, ed, z) ==
    IF sd # "" /\ ed # ""
    THEN SelectSeq(es, LAMBDA item : InReportWindow(itemDate(item), sd, ed, z))
    ELSE es

\* A faulty variant of isExpense: payments are counted as expenses.
C18_AnyType(item) == TRUE

\* item.type === 'Expense' (line 178).
isExpense(item) == item.type = "Expense"

\* The amounts FinancialReports shows (lines 176-184).
FinancialReports(ps, es, sd, ed, z) ==
    LET fp == filteredPoliciesReport(ps, sd, ed, z)
        fe == filteredPaymentsExpenses(es, sd, ed, z)
        expenses == SelectSeq(fe, isExpense)
        totalUnpaidToInsurer ==
            Sum([i \in DOMAIN fp |->
                    IF fp[i].paidToInsurer THEN Num(0)
                    ELSE Amount(fp[i].totalAmount)])
        commissionNotPaidToInsurer ==
            Sum([i \in DOMAIN fp |->
                    IF fp[i].paidToInsurer THEN Num(0)
                    ELSE Amount(fp[i].commission)])
    IN  [totalIncome |-> Sum([i \in DOMAIN fp |-> Amount(fp[i].totalAmount)]),
         totalCommission |-> Sum([i \in DOMAIN fp |-> Amount(fp[i].commission)]),
         totalExpenses |->
            Sum([i \in DOMAIN expenses |-> Amount(expenses[i].amount)]),
         commissionNotPaidToInsurer |-> commissionNotPaidToInsurer,
         totalUnpaidToInsurer |-> totalUnpaidToInsurer,
         amountDueToInsurer |->
            Minus(totalUnpaidToInsurer, commissionNotPaidToInsurer)]

\* ------------------------------------------------------------ policy filter
\* What the user may type into the text filters (lines 412-422).
TypeFilterTexts == {Empty, <<"n", "e", "w">>}
NameFilterTexts == {Empty, <<"L", "E">>, <<"c", "y">>}
NumberFilterTexts == {Empty, <<"p", "n", "2">>}
PaidFilters == {"all", "yes", "no"}
FilterDates == {"", "2024-01-02"}

setFilterPolicyType ==
    /\ \E text \in TypeFilterTexts :
        /\ filterPolicyType' = text
        /\ ViewStep("setFilterPolicyType", Some(text))
    /\ UNCHANGED <<filterCustomerName, filterPolicyNumber, filterPaidByCustomer,
                   filterPaidToInsurer, filterValidUntilStartDate,
                   filterValidUntilEndDate, sortVars, reportVars>>

setFilterCustomerName ==
    /\ \E text \in NameFilterTexts :
        /\ filterCustomerName' = text
        /\ ViewStep("setFilterCustomerName", Some(text))
    /\ UNCHANGED <<filterPolicyType, filterPolicyNumber, filterPaidByCustomer,
                   filterPaidToInsurer, filterValidUntilStartDate,
                   filterValidUntilEndDate, sortVars, reportVars>>

setFilterPolicyNumber ==
    /\ \E text \in NumberFilterTexts :
        /\ filterPolicyNumber' = text
        /\ ViewStep("setFilterPolicyNumber", Some(text))
    /\ UNCHANGED <<filterPolicyType, filterCustomerName, filterPaidByCustomer,
                   filterPaidToInsurer, filterValidUntilStartDate,
                   filterValidUntilEndDate, sortVars, reportVars>>

setFilterPaidByCustomer ==
    /\ \E choice \in PaidFilters :
        /\ filterPaidByCustomer' = choice
        /\ ViewStep("setFilterPaidByCustomer", Some(choice))
    /\ UNCHANGED <<filterPolicyType, filterCustomerName, filterPolicyNumber,
                   filterPaidToInsurer, filterValidUntilStartDate,
                   filterValidUntilEndDate, sortVars, reportVars>>

setFilterPaidToInsurer ==
    /\ \E choice \in PaidFilters :
        /\ filterPaidToInsurer' = choice
        /\ ViewStep("setFilterPaidToInsurer", Some(choice))
    /\ UNCHANGED <<filterPolicyType, filterCustomerName, filterPolicyNumber,
                   filterPaidByCustomer, filterValidUntilStartDate,
                   filterValidUntilEndDate, sortVars, reportVars>>

setFilterValidUntilStartDate ==
    /\ \E d \in FilterDates :
        /\ filterValidUntilStartDate' = d
        /\ ViewStep("setFilterValidUntilStartDate", Some(d))
    /\ UNCHANGED <<filterPolicyType, filterCustomerName, filterPolicyNumber,
                   filterPaidByCustomer, filterPaidToInsurer,
                   filterValidUntilEndDate, sortVars, reportVars>>

setFilterValidUntilEndDate ==
    /\ \E d \in FilterDates :
        /\ filterValidUntilEndDate' = d
        /\ ViewStep("setFilterValidUntilEndDate", Some(d))
    /\ UNCHANGED <<filterPolicyType, filterCustomerName, filterPolicyNumber,
                   filterPaidByCustomer, filterPaidToInsurer,
                   filterValidUntilStartDate, sortVars, reportVars>>

\* The text tests of the filter (lines 334-338).
matchesText(field, filter) ==
    filter = Empty \/ includes(toLowerCase(Chars(field)), toLowerCase(filter))

\* A faulty variant of matchesPaid: "no" filters as "yes" does.
C19_YesOnly(flag, filter) == filter = "all" \/ flag

\* policy.paidX === (filter === 'yes'), unless the filter is 'all'.
matchesPaid(flag, filter) == filter = "all" \/ flag = (filter = "yes")

\* The validUntil tests of the filter (lines 342-353).
matchesValidUntilDate(policy) ==
    /\ (filterValidUntilStartDate # "" /\ policy.validUntil # "")
        => NewDate(policy.validUntil)
             >= StartOfLocalDay(NewDate(filterValidUntilStartDate), timeZone)
    /\ (filterValidUntilEndDate # "" /\ policy.validUntil # "")
        => NewDate(policy.validUntil)
             <= EndOfLocalDay(NewDate(filterValidUntilEndDate), timeZone)

\* The filter callback of ViewPolicies (lines 333-356).
matches(policy) ==
    /\ matchesText(policy.policyType, filterPolicyType)
    /\ \/ filterCustomerName = Empty
       \/ includes(toLowerCase(Chars(policy.customer.firstName)),
                   toLowerCase(filterCustomerName))
       \/ includes(toLowerCase(Chars(policy.customer.lastName)),
                   toLowerCase(filterCustomerName))
    /\ matchesText(policy.policyNumber, filterPolicyNumber)
    /\ matchesPaid(policy.paidByCustomer, filterPaidByCustomer)
    /\ matchesPaid(policy.paidToInsurer, filterPaidToInsurer)
    /\ matchesValidUntilDate(policy)

filteredPolicies(ps) == SelectSeq(ps, matches)

\* ------------------------------------------------------------- policy sort
\* The headers, were there one for the creation time as well.
C30_CreatedAtHeader ==
    {"policyNumber", "customer", "policyType", "totalAmount", "policyDate",
     "validUntil", "createdAt"}

\* The column headers that call handleSort (lines 472-487).
SortColumns ==
    {"policyNumber", "customer", "policyType", "totalAmount", "policyDate",
     "validUntil"}

\* A handleSort that leaves the direction alone when the column changes.
C23_DirectionKept ==
    /\ \E column \in SortColumns :
        /\ IF sortColumn = column
           THEN /\ sortDirection' = IF sortDirection = "asc" THEN "desc" ELSE "asc"
                /\ UNCHANGED sortColumn
           ELSE /\ sortColumn' = column
                /\ UNCHANGED sortDirection
        /\ ViewStep("handleSort", Some(column))
    /\ UNCHANGED <<filterVars, reportVars>>

\* handleSort (lines 377-384).
handleSort ==
    /\ \E column \in SortColumns :
        /\ IF sortColumn = column
           THEN /\ sortDirection' = IF sortDirection = "asc" THEN "desc" ELSE "asc"
                /\ UNCHANGED sortColumn
           ELSE /\ sortColumn' = column
                /\ sortDirection' = "asc"
        /\ ViewStep("handleSort", Some(column))
    /\ UNCHANGED <<filterVars, reportVars>>

TextKey(cs) == [isText |-> TRUE, text |-> cs, num |-> Num(0)]
NumKey(x) == [isText |-> FALSE, text |-> <<>>, num |-> x]

\* valA / valB of the comparator (lines 360-370).  new Date(timestamp) of a
\* store Timestamp object is an invalid date, whose getTime() is NaN.
SortKey(policy, column) ==
    IF column = "customer"
    THEN TextKey(toLowerCase(Chars(policy.customer.firstName) \o <<" ">>
                             \o Chars(policy.customer.lastName)))
    ELSE IF column = "createdAt"
    THEN NumKey(IF policy.createdAt # ServerTimestamp THEN NaN ELSE Num(0))
    ELSE IF column \in {"policyDate", "validUntil"}
    THEN NumKey(IF policy[column] # "" THEN Num(NewDate(policy[column]))
                ELSE Num(0))
    ELSE IF column = "totalAmount"
    THEN NumKey(policy.totalAmount)
    ELSE TextKey(toLowerCase(Chars(policy[column])))

\* valA < valB.
KeyLess(a, b) ==
    CASE a.isText /\ b.isText -> TextLess(a.text, b.text)
      [] ~a.isText /\ ~b.isText ->
            ~a.num.nan /\ ~b.num.nan /\ a.num.val < b.num.val

\* The comparator (lines 372-374).
compare(a, b, column, direction) ==
    LET valA == SortKey(a, column)
        valB == SortKey(b, column)
    IN  IF KeyLess(valA, valB) THEN (IF direction = "asc" THEN 0 - 1 ELSE 1)
        ELSE IF KeyLess(valB, valA) THEN (IF direction = "asc" THEN 1 ELSE 0 - 1)
        ELSE 0

\* Array.prototype.sort promises an order only for a consistent comparator.
ConsistentComparator(xs, column, direction) ==
    \A a, b, c \in Range(xs) :
        LET ab == compare(a, b, column, direction)
            bc == compare(b, c, column, direction)
            ac == compare(a, c, column, direction)
        IN  /\ (ab = 0 /\ bc = 0) => ac = 0
            /\ (ab < 0 /\ bc < 0) => ac < 0
            /\ (ab < 0 /\ bc = 0) => ac < 0
            /\ (ab = 0 /\ bc < 0) => ac < 0

\* The sort is stable: an element goes behind those that compare equal.
RECURSIVE StableSort(_, _, _)
StableSort(xs, column, direction) ==
    IF xs = <<>> THEN <<>>
    ELSE LET s == StableSort(SubSeq(xs, 1, Len(xs) - 1), column, direction)
             x == xs[Len(xs)]
             k == Cardinality({i \in DOMAIN s :
                                 compare(s[i], x, column, direction) <= 0})
         IN  SubSeq(s, 1, k) \o <<x>> \o SubSeq(s, k + 1, Len(s))

Orders(xs) ==
    {[i \in DOMAIN xs |-> xs[f[i]]] :
        f \in {g \in [DOMAIN xs -> DOMAIN xs] :
                 \A i, j \in DOMAIN xs : g[i] = g[j] => i = j}}

\* The orders .sort(comparator) may leave xs in: the stable order, or with
\* an inconsistent comparator whatever order the engine comes to.
sort(xs, column, direction) ==
    IF ConsistentComparator(xs, column, direction)
    THEN {StableSort(xs, column, direction)}
    ELSE Orders(xs)

\* filteredAndSortedPolicies of ViewPolicies (lines 332-375).
filteredAndSortedPolicies ==
    sort(filteredPolicies(policies), sortColumn, sortDirection)

Next ==
    \/ AuthStateChanged
    \/ PoliciesSnapshot
    \/ PaymentsExpensesSnapshot
    \/ PoliciesSnapshotError
    \/ PaymentsExpensesSnapshotError
    \/ CloseModal
    \/ handleAuth
    \/ AuthResolved
    \/ handleLogout
    \/ LogoutResolved
    \/ handleAddPolicy
    \/ AddPolicyResolved
    \/ handleEditPolicyClick
    \/ ClosePolicyEditModal
    \/ handleUpdatePolicy
    \/ UpdatePolicyResolved
    \/ handleEditCustomerClick
    \/ CloseCustomerEditModal
    \/ handleUpdateCustomer
    \/ CustomerWriteResolved
    \/ handleAddPaymentExpense
    \/ AddPaymentExpenseResolved
    \/ handleDeletePolicy
    \/ DeletePolicyResolved
    \/ CascadeDeleteResolved
    \/ handleDeletePaymentExpense
    \/ DeletePaymentExpenseResolved
    \/ Tick
    \/ setStartDate
    \/ setEndDate
    \/ setFilterPolicyType
    \/ setFilterCustomerName
    \/ setFilterPolicyNumber
    \/ setFilterPaidByCustomer
    \/ setFilterPaidToInsurer
    \/ setFilterValidUntilStartDate
    \/ setFilterValidUntilEndDate
    \/ handleSort

Spec == Init /\ [][Next]_vars

\* A session in progress: u1 signed in, both subscriptions live, nothing
\* stored yet.  Init reaches this state by handleAuth, AuthResolved and
\* AuthStateChanged, the form's message cleared.
InitSession ==
    /\ authUser = "u1"
    /\ authPending = FALSE
    /\ storePolicies = {}
    /\ storeLedger = {}
    /\ nextPolicyId = 1
    /\ nextEntryId = 1
    /\ listeners = {Listener("policies", "u1"), Listener("payments_expenses", "u1")}
    /\ user = "u1"
    /\ userId = "u1"
    /\ isAuthReady = TRUE
    /\ authMessage = NoMessage
    /\ showModal = FALSE
    /\ modalMessage = NoMessage
    /\ policies = <<>>
    /\ loadingPolicies = TRUE
    /\ paymentsExpenses = <<>>
    /\ loadingPaymentsExpenses = TRUE
    /\ isPolicyEditModalOpen = FALSE
    /\ selectedPolicyForEdit = Null
    /\ isCustomerEditModalOpen = FALSE
    /\ selectedCustomerForEdit = Null
    /\ ops = {}
    /\ last = Event("init", Null, Null)
    /\ issued = {}
    /\ InitialView
    /\ currentTime = FirstTick
    /\ timeZone = 0

\* Policies, ledger entries and their deletion within a session.
NextLedger ==
    \/ PoliciesSnapshot
    \/ PaymentsExpensesSnapshot
    \/ handleAddPolicyBase
    \/ AddPolicyResolved
    \/ handleAddPaymentExpense
    \/ AddPaymentExpenseResolved
    \/ handleDeletePolicy
    \/ DeletePolicyResolved
    \/ CascadeDeleteResolved
    \/ handleDeletePaymentExpense
    \/ DeletePaymentExpenseResolved

SpecLedger == InitSession /\ [][NextLedger]_vars

\* Adding policies, with every way of filling in the form.
NextAddPolicy ==
    \/ PoliciesSnapshot
    \/ CloseModal
    \/ handleAddPolicy
    \/ AddPolicyResolved

SpecAddPolicy == InitSession /\ [][NextAddPolicy]_vars

\* Policies and the Edit Policy modal within a session.
NextPolicyEdit ==
    \/ PoliciesSnapshot
    \/ handleAddPolicyValid
    \/ AddPolicyResolved
    \/ handleEditPolicyClick
    \/ ClosePolicyEditModal
    \/ handleUpdatePolicy
    \/ UpdatePolicyResolved

SpecPolicyEdit == InitSession /\ [][NextPolicyEdit]_vars

\* Policies and the Edit Customer modal within a session.
NextCustomerEdit ==
    \/ PoliciesSnapshot
    \/ handleAddPolicyValid
    \/ AddPolicyResolved
    \/ handleEditCustomerClick
    \/ CloseCustomerEditModal
    \/ handleUpdateCustomer
    \/ CustomerWriteResolved

SpecCustomerEdit == InitSession /\ [][NextCustomerEdit]_vars

\* The two fan-outs within a session: the customer edit over the policies,
\* the cascade of a policy's deletion over the ledger.
NextFanOut ==
    \/ PoliciesSnapshot
    \/ PaymentsExpensesSnapshot
    \/ handleAddPolicyBase
    \/ AddPolicyResolved
    \/ handleAddPayment
    \/ AddPaymentExpenseResolved
    \/ handleEditCustomerClick
    \/ handleUpdateCustomer
    \/ CustomerWriteResolved
    \/ handleDeletePolicyOK
    \/ DeletePolicyResolved
    \/ CascadeDeleteResolved

SpecFanOut == InitSession /\ [][NextFanOut]_vars

\* Every operation on a stored policy within a session.
NextEdit ==
    \/ PoliciesSnapshot
    \/ handleAddPolicyBase
    \/ AddPolicyResolved
    \/ handleEditPolicyClick
    \/ handleUpdatePolicyAsShown
    \/ UpdatePolicyResolved
    \/ handleEditCustomerClick
    \/ handleUpdateCustomer
    \/ CustomerWriteResolved
    \/ handleDeletePolicyOK
    \/ DeletePolicyResolved

SpecEdit == InitSession /\ [][NextEdit]_vars

\* Signing in and out, the subscriptions that follow the identity, and the
\* notifications, from the start of the application.
NextAuth ==
    \/ AuthStateChanged
    \/ PoliciesSnapshot
    \/ PaymentsExpensesSnapshot
    \/ PoliciesSnapshotError
    \/ PaymentsExpensesSnapshotError
    \/ CloseModal
    \/ handleAuth
    \/ AuthResolved
    \/ handleLogout
    \/ LogoutResolved
    \/ handleAddPolicyBase
    \/ AddPolicyResolved

SpecAuth == Init /\ [][NextAuth]_vars

\* ------------------------------------------------------------- rendering
\* The notifications on screen: the Modal shows modalMessage whenever it is
\* not empty (lines 10-11, 1687); authMessage is part of the login form,
\* which is rendered only while no user is signed in (lines 1637-1647).
VisibleNotifications ==
    (IF modalMessage # NoMessage THEN {modalMessage} ELSE {})
    \cup (IF isAuthReady /\ user = NoUser /\ authMessage # NoMessage
          THEN {authMessage} ELSE {})

\* ------------------------------------------------------------- properties
PolicyKeys(S) == {<<d.owner, d.id>> : d \in S}

\* C1: whenever a confirmed deletePolicy(X) reports success, the store
\* holds neither policy X nor any ledger entry whose policyId is X.id,
\* whatever other store writes the delete was interleaved with.
C1_CascadeDeleteComplete ==
    last.kind = "deletePolicySucceeded" =>
        LET op == last.op[1]
        IN  /\ \A d \in PoliciesOf(op.uid) : d.id # op.id
            /\ \A e \in LedgerOf(op.uid) : e.policyId # op.id

\* C2: an invocation of deletePolicy or deleteLedgerEntry whose dialog is
\* declined issues no request and leaves the store, both caches, the
\* notification and the pending invocations as they were; a step that
\* issues a delete request is the confirmed invocation itself or the cascade
\* of an invocation already awaiting the store.
C2_ConfirmationRequired ==
    [][/\ (/\ last'.kind \in {"deletePolicyDeclined", "handleDeletePolicy",
                              "deletePaymentExpenseDeclined",
                              "handleDeletePaymentExpense"}
           /\ ~last'.input[1].answer)
          => /\ issued' = {}
             /\ UNCHANGED <<storeVars, cacheVars, modalVars, ops>>
       /\ (\E r \in issued' : r.kind = "delete")
          => \/ /\ last'.kind \in {"handleDeletePolicy", "handleDeletePaymentExpense"}
                /\ last'.input[1].answer
             \/ /\ last'.kind = "deletePolicyCascade"
                /\ last'.op[1] \in ops]_vars

\* A declined deletion of a ledger entry, with the entry stored.
C2_Witness ==
    /\ last.kind = "deletePaymentExpenseDeclined"
    /\ \E e \in storeLedger : e.id = last.input[1].id

\* C3: an addPolicy whose policyNumber, totalAmount, policyDate, validUntil,
\* customer.firstName or customer.lastName is empty issues no create
\* request, starts no invocation, raises the validation notification and
\* leaves the store unchanged.
C3_AddPolicyValidation ==
    [][(/\ last'.kind \in {"addPolicyInvalid", "handleAddPolicy"}
        /\ LET f == last'.input[1]
           IN  \/ f.policyNumber = ""
               \/ f.totalAmount = <<>>
               \/ f.policyDate = ""
               \/ f.validUntil = ""
               \/ f.firstName = ""
               \/ f.lastName = "")
       => /\ issued' = {}
          /\ modalMessage'.text = "Please fill in all required fields: Policy Number, Total Amount, Policy Date, Valid Until, Customer First Name, Customer Last Name."
          /\ modalMessage' \in VisibleNotifications'
          /\ UNCHANGED <<storeVars, ops>>]_vars

\* An addPolicy with only lastName left empty, a policy already stored.
C3_Witness ==
    /\ last.kind = "addPolicyInvalid"
    /\ last.input[1].lastName = ""
    /\ storePolicies # {}

\* C4: whenever updateCustomerAcrossPolicies(idNumber, fields) reports
\* success, every stored policy of the namespace whose customer.idNumber is
\* idNumber carries the new firstName, lastName, phoneNumber, address, city
\* and postalCode.
C4_CustomerEditReachesEveryPolicy ==
    last.kind = "updateCustomerSucceeded" =>
        LET op == last.op[1]
        IN  \A d \in PoliciesOf(op.uid) :
                d.customer.idNumber = op.idNumber =>
                    \A f \in DOMAIN op.fields : d.customer[f] = op.fields[f]

\* C5: the customer.idNumber of a stored policy never differs from the
\* value it had before the step.
C5_IdNumberImmutable ==
    [][\A d \in storePolicies : \A e \in storePolicies' :
          (d.owner = e.owner /\ d.id = e.id)
              => e.customer.idNumber = d.customer.idNumber]_vars

\* C6: the first failed write of a customer fan-out, or failed delete of a
\* deletion, raises the operation's error notification; a later failure
\* leaves the notification alone; no failure undoes a write; and the
\* success notification is raised only by an operation none of whose
\* writes has failed.
C6_PartialFailureSurfaced ==
    [][/\ last'.kind = "updateCustomerFailed"
          => /\ modalMessage'.text = "Error updating customer"
             /\ modalMessage'.error \in ErrorMessages
             /\ modalMessage' \in VisibleNotifications'
             /\ UNCHANGED storeVars
       /\ last'.kind = "deletePolicyFailed"
          => /\ modalMessage'.text = "Error deleting policy"
             /\ modalMessage'.error \in ErrorMessages
             /\ modalMessage' \in VisibleNotifications'
             /\ UNCHANGED storeVars
       /\ last'.kind \in {"customerWriteFailed", "cascadeDeleteFailed"}
          => UNCHANGED <<storeVars, modalVars>>
       /\ last'.kind \in {"updateCustomerSucceeded", "deletePolicySucceeded"}
          => ~last'.op[1].failed
       /\ (modalMessage' # modalMessage /\ modalMessage'.text \in
              {"Customer details updated successfully across all associated policies!",
               "Policy and associated items deleted successfully!"})
          => /\ last'.kind \in {"updateCustomerSucceeded", "deletePolicySucceeded"}
             /\ ~last'.op[1].failed]_vars

\* A customer fan-out that ends in its error after one of its writes has
\* been applied: one policy carries the new name, another the old one.
C6_Witness ==
    /\ last.kind = "updateCustomerFailed"
    /\ \E d \in storePolicies : d.customer.firstName = last.op[1].fields.firstName
    /\ \E d \in storePolicies :
          /\ d.customer.idNumber = last.op[1].idNumber
          /\ d.customer.firstName # last.op[1].fields.firstName

\* C7: a failed logout leaves a notification on screen that names the
\* logout and carries the error text.
C7_LogoutFailureVisible ==
    last.kind = "logoutFailed" =>
        \E m \in VisibleNotifications :
            m.text = "Error logging out" /\ m.error \in ErrorMessages

\* C8: each collection has at most one live listener; a listener is live
\* only while a user is signed in and it is on that user's namespace.
C8_SubscriptionLifecycle ==
    /\ \A l \in listeners : isAuthReady /\ userId # NoUser /\ l.uid = userId
    /\ \A c \in {"policies", "payments_expenses"} :
          Cardinality({l \in listeners : l.coll = c}) <= 1

\* u2 is signed in and subscribed after u1 was, u1's policy still stored.
C8_Witness ==
    /\ userId = "u2"
    /\ listeners = {Listener("policies", "u2"), Listener("payments_expenses", "u2")}
    /\ \E d \in storePolicies : d.owner = "u1"

\* C9: every stored policy has a totalAmount and a commission that are
\* numbers, not NaN.
C9_NumericFields ==
    \A d \in storePolicies : ~d.totalAmount.nan /\ ~d.commission.nan

\* C10: no step changes the createdAt of a stored policy; an update leaves
\* the set of stored ids as it was; a request that carries createdAt is a
\* create, and no request carries id.
C10_IdAndCreatedAtFrozen ==
    [][/\ \A d \in storePolicies : \A e \in storePolicies' :
             (d.owner = e.owner /\ d.id = e.id) => e.createdAt = d.createdAt
       /\ last'.kind \in {"updatePolicySucceeded", "updatePolicyFailed",
                          "customerWriteApplied", "updateCustomerSucceeded",
                          "updateCustomerFailed", "customerWriteFailed"}
             => PolicyKeys(storePolicies') = PolicyKeys(storePolicies)
       /\ \A r \in issued' :
             /\ "id" \notin r.fields
             /\ "createdAt" \in r.fields => r.kind = "create"]_vars

\* A policy update applied to a store in which a customer edit has been
\* applied before.
C10_Witness ==
    /\ last.kind = "updatePolicySucceeded"
    /\ \E d \in storePolicies : d.customer.firstName = "Eve"

\* Ledger entries next to every handler that updates a document.
NextLedgerEdit ==
    \/ PoliciesSnapshot
    \/ handleAddPolicyBase
    \/ AddPolicyResolved
    \/ handleAddPayment
    \/ AddPaymentExpenseResolved
    \/ handleEditPolicyClick
    \/ handleUpdatePolicyAsShown
    \/ UpdatePolicyResolved
    \/ handleEditCustomerClick
    \/ handleUpdateCustomer
    \/ CustomerWriteResolved

SpecLedgerEdit == InitSession /\ [][NextLedgerEdit]_vars

\* handleUpdateCustomer called with any object, over policies with and
\* without an ID Number.
NextCustomerCall ==
    \/ PoliciesSnapshot
    \/ handleAddPolicyAnyId
    \/ AddPolicyResolved
    \/ handleEditCustomerClick
    \/ handleUpdateCustomerCall
    \/ CustomerWriteResolved

SpecCustomerCall == InitSession /\ [][NextCustomerCall]_vars

\* C11: a stored ledger entry keeps every field from its creation to its
\* deletion, and every update request is addressed to the policies
\* collection.
C11_LedgerNeverUpdated ==
    [][/\ \A d \in storeLedger : \A e \in storeLedger' :
             (d.owner = e.owner /\ d.id = e.id) => e = d
       /\ \A r \in issued' : r.kind = "update" => r.coll = "policies"]_vars

\* A policy update applied after a customer edit, a ledger entry stored.
C11_Witness ==
    /\ last.kind = "updatePolicySucceeded"
    /\ storeLedger # {}
    /\ \E d \in storePolicies : d.customer.firstName = "Eve"

\* C12: an addLedgerEntry whose date, amount or type is empty issues no
\* request and starts no invocation; any other issues exactly one create
\* on the user's payments_expenses collection, with policyId the selected
\* policy's id, or null when none is selected; the entry stored on success
\* carries that policyId.
C12_AddLedgerEntryValidation ==
    [][/\ last'.kind \in {"addPaymentExpenseInvalid", "handleAddPaymentExpense"}
          => LET f == last'.input[1]
                 sel == f.selectedPolicyForPayment
             IN  IF f.date = "" \/ f.amount = <<>> \/ f.type = ""
                 THEN issued' = {} /\ UNCHANGED <<ops, storeVars>>
                 ELSE /\ issued' = {[kind |-> "create", coll |-> "payments_expenses",
                                     uid |-> userId, id |-> NoId,
                                     fields |-> {"type", "date", "amount", "reason",
                                                 "policyId", "createdAt"}]}
                      /\ \E op \in ops' :
                            /\ ops' = ops \cup {op}
                            /\ op.kind = "addPaymentExpense"
                            /\ op.entry.policyId = IF sel = <<>> THEN NoId ELSE sel[1]
                            /\ (sel # <<>>) => op.entry.policyId # NoId
       /\ last'.kind = "addPaymentExpenseSucceeded"
          => \E d \in storeLedger' \ storeLedger :
                /\ storeLedger' = storeLedger \cup {d}
                /\ d.policyId = last'.op[1].entry.policyId]_vars

\* An addLedgerEntry refused for an empty field, after an entry linked to
\* a policy has been stored.
C12_Witness ==
    /\ last.kind = "addPaymentExpenseInvalid"
    /\ \E e \in storeLedger : e.policyId # NoId

\* C13: updateCustomerAcrossPolicies called with an empty idNumber issues
\* no request and starts no invocation; called with any other it issues
\* exactly one update per policy of the Policies cache whose
\* customer.idNumber is that idNumber, on the policies collection,
\* carrying the six customer paths and nothing else.
C13_FanOutRequestSet ==
    [][(/\ last'.kind \in {"updateCustomerNotReady", "handleUpdateCustomer",
                           "updateCustomerSucceeded"}
        /\ last'.input # <<>>)
       => LET idn == last'.input[1].idNumber
          IN  IF idn = ""
              THEN issued' = {} /\ UNCHANGED <<ops, storeVars>>
              ELSE issued' =
                     {[kind |-> "update", coll |-> "policies", uid |-> userId,
                       id |-> policies[i].id,
                       fields |-> {"customer.firstName", "customer.lastName",
                                   "customer.phoneNumber", "customer.address",
                                   "customer.city", "customer.postalCode"}] :
                        i \in {j \in DOMAIN policies :
                                 policies[j].customer.idNumber = idn}}]_vars

\* A fan-out of one request over a cache of two policies, one of them
\* without an ID Number.
C13_Witness ==
    /\ last.kind = "handleUpdateCustomer"
    /\ Cardinality(issued) = 1
    /\ Len(policies) = 2
    /\ \E i \in DOMAIN policies : policies[i].customer.idNumber = ""

\* A call with an empty idNumber, refused.
C13_WitnessEmpty ==
    /\ last.kind = "updateCustomerNotReady"
    /\ last.input[1].idNumber = ""
    /\ policies # <<>>

\* The customers page of a returning user.
NextCustomers ==
    \/ PoliciesSnapshot
    \/ handleEditCustomerClick
    \/ CloseCustomerEditModal

SpecCustomers == InitStoredPolicies /\ [][NextCustomers]_vars

\* The policies of the list ps that carry the ID Number idn.
PoliciesWith(ps, idn) == {i \in DOMAIN ps : ps[i].customer.idNumber = idn}

\* The sum of totalAmount over the policies ps[i], i in I, what is no number
\* counted as 0.
RECURSIVE TotalOf(_, _)
TotalOf(ps, I) ==
    IF I = {} THEN 0
    ELSE LET i == CHOOSE j \in I : TRUE
             x == ps[i].totalAmount
         IN  (IF x.nan THEN 0 ELSE x.val) + TotalOf(ps, I \ {i})

\* C14: the customers page shows exactly one row per distinct non-empty
\* customer.idNumber of the policy list; a row's policiesCount is the number
\* of policies with its idNumber, its totalPolicyValue the sum of their
\* totalAmount with unparseable values as 0, and its associatedPolicies has
\* policiesCount entries.
C14_CustomerRows ==
    LET rows == customersList(policies)
        ids == {policies[i].customer.idNumber : i \in DOMAIN policies} \ {""}
    IN  /\ Len(rows) = Cardinality(ids)
        /\ \A idn \in ids : \E i \in DOMAIN rows : rows[i].idNumber = idn
        /\ \A i \in DOMAIN rows :
            LET with == PoliciesWith(policies, rows[i].idNumber)
            IN  /\ rows[i].policiesCount = Cardinality(with)
                /\ rows[i].totalPolicyValue = Num(TotalOf(policies, with))
                /\ Len(rows[i].associatedPolicies) = rows[i].policiesCount

\* The example of the claim: A1/100, A1/50 and B2/30 give A1 (2, 150) and
\* B2 (1, 30).
C14_Witness ==
    /\ Len(policies) = 3
    /\ {<<policies[i].customer.idNumber, policies[i].totalAmount.val>> :
            i \in DOMAIN policies} = {<<"A1", 100>>, <<"A1", 50>>, <<"B2", 30>>}
    /\ {<<r.idNumber, r.policiesCount, r.totalPolicyValue.val>> :
            r \in Range(customersList(policies))}
         = {<<"A1", 2, 150>>, <<"B2", 1, 30>>}

\* The dashboard of a returning user as the clock goes on.
NextDashboard ==
    \/ PoliciesSnapshot
    \/ Tick

SpecDashboard == InitStoredPolicies /\ [][NextDashboard]_vars

\* C15: the dashboard's overdue count is the number of policies whose
\* validUntil names a calendar day strictly before the current calendar day;
\* a policy valid until the current day is not counted.
C15_OverdueByCalendarDay ==
    Dashboard(policies, currentTime, timeZone).overduePolicies
      = Cardinality({i \in DOMAIN policies :
                        /\ policies[i].validUntil # ""
                        /\ DayNumber(policies[i].validUntil)
                             < LocalDay(currentTime, timeZone)})

\* A policy valid until the current day is on the dashboard.
C15_Witness ==
    \E i \in DOMAIN policies :
        /\ policies[i].validUntil # ""
        /\ DayNumber(policies[i].validUntil) = LocalDay(currentTime, timeZone)

\* The sum of commission over the policies ps[i], i in I.
RECURSIVE CommissionOf(_, _)
CommissionOf(ps, I) ==
    IF I = {} THEN 0
    ELSE LET i == CHOOSE j \in I : TRUE
             x == ps[i].commission
         IN  (IF x.nan THEN 0 ELSE x.val) + CommissionOf(ps, I \ {i})

\* C16: the dashboard's totalPolicies is the length of the policy list,
\* totalPolicyValue the sum of totalAmount and totalCommission the sum of
\* commission, a value that is no number counting as 0; for the empty list
\* every field is 0.
C16_DashboardTotals ==
    LET summary == Dashboard(policies, currentTime, timeZone)
    IN  /\ summary.totalPolicies = Len(policies)
        /\ summary.totalPolicyValue = Num(TotalOf(policies, DOMAIN policies))
        /\ summary.totalCommission = Num(CommissionOf(policies, DOMAIN policies))
        /\ policies = <<>> =>
             summary = [totalPolicies |-> 0, totalPolicyValue |-> Num(0),
                        totalCommission |-> Num(0),
                        policiesPaidByCustomer |-> 0,
                        policiesPaidToInsurer |-> 0, overduePolicies |-> 0]

\* Three policies, one with an amount that is no number: the other two add
\* up.
C16_Witness ==
    /\ Len(policies) = 3
    /\ \E i \in DOMAIN policies : policies[i].totalAmount.nan
    /\ Dashboard(policies, currentTime, timeZone).totalPolicyValue = Num(150)
    /\ Dashboard(policies, currentTime, timeZone).totalCommission = Num(10)

\* The financial reports of a returning user.
NextReport ==
    \/ PoliciesSnapshot
    \/ PaymentsExpensesSnapshot
    \/ setStartDate
    \/ setEndDate

SpecReport == InitStored /\ [][NextReport]_vars

\* The instant t lies between 00:00:00.000 of the day sd and 23:59:59.999 of
\* the day ed, days being those of the user's time zone.
WithinDays(t, sd, ed) ==
    /\ DayNumber(sd) <= LocalDay(t, timeZone)
    /\ LocalDay(t, timeZone) <= DayNumber(ed)

\* C17: with a start and an end date supplied, the report keeps exactly the
\* policies whose createdAt lies between 00:00:00.000 of the start date and
\* 23:59:59.999 of the end date, and exactly the ledger entries whose
\* createdAt (or, for want of it, whose date) does; with the start or the end
\* date missing it keeps every record.
C17_ReportWindow ==
    LET fp == filteredPoliciesReport(policies, startDate, endDate, timeZone)
        fe == filteredPaymentsExpenses(paymentsExpenses, startDate, endDate,
                                       timeZone)
    IN  IF startDate # "" /\ endDate # ""
        THEN /\ fp = SelectSeq(policies, LAMBDA policy :
                        WithinDays(policy.createdAt, startDate, endDate))
             /\ fe = SelectSeq(paymentsExpenses, LAMBDA item :
                        IF item.createdAt # ServerTimestamp
                        THEN WithinDays(item.createdAt, startDate, endDate)
                        ELSE /\ DayNumber(startDate) <= DayNumber(item.date)
                             /\ DayNumber(item.date) <= DayNumber(endDate))
        ELSE fp = policies /\ fe = paymentsExpenses

\* A range is supplied that keeps one policy and drops another.
C17_Witness ==
    /\ startDate # "" /\ endDate # ""
    /\ LET fp == filteredPoliciesReport(policies, startDate, endDate, timeZone)
       IN  fp # <<>> /\ Len(fp) < Len(policies)

\* The sum of amount over the ledger entries es[i], i in I.
RECURSIVE AmountOf(_, _)
AmountOf(es, I) ==
    IF I = {} THEN 0
    ELSE LET i == CHOOSE j \in I : TRUE
             x == es[i].amount
         IN  (IF x.nan THEN 0 ELSE x.val) + AmountOf(es, I \ {i})

\* C18: over the records the report keeps, totalExpenses is the sum of
\* amount over the entries of type Expense only, and amountDueToInsurer is
\* totalUnpaidToInsurer minus commissionNotPaidToInsurer, which is the sum
\* of totalAmount - commission over the policies not paid to the insurer.
C18_InsurerAmounts ==
    LET fp == filteredPoliciesReport(policies, startDate, endDate, timeZone)
        fe == filteredPaymentsExpenses(paymentsExpenses, startDate, endDate,
                                       timeZone)
        report == FinancialReports(policies, paymentsExpenses, startDate,
                                   endDate, timeZone)
        unpaid == {i \in DOMAIN fp : ~fp[i].paidToInsurer}
    IN  /\ report.totalExpenses
             = Num(AmountOf(fe, {i \in DOMAIN fe : fe[i].type = "Expense"}))
        /\ report.amountDueToInsurer
             = Minus(report.totalUnpaidToInsurer,
                     report.commissionNotPaidToInsurer)
        /\ report.amountDueToInsurer
             = Num(TotalOf(fp, unpaid) - CommissionOf(fp, unpaid))

\* The report covers a payment and two expenses, a policy paid to the insurer
\* and two that are not, one of these with a commission: 40 of expenses,
\* (100 - 0) + (30 - 10) due to the insurer.
C18_Witness ==
    LET fp == filteredPoliciesReport(policies, startDate, endDate, timeZone)
        fe == filteredPaymentsExpenses(paymentsExpenses, startDate, endDate,
                                       timeZone)
        report == FinancialReports(policies, paymentsExpenses, startDate,
                                   endDate, timeZone)
    IN  /\ \E i \in DOMAIN fe : fe[i].type = "Payment"
        /\ \E i \in DOMAIN fp : fp[i].paidToInsurer
        /\ \E i \in DOMAIN fp : ~fp[i].paidToInsurer /\ fp[i].commission.val > 0
        /\ report.totalExpenses = Num(40)
        /\ report.amountDueToInsurer = Num(120)

\* The policy table of a returning user and its filters.
NextFilter ==
    \/ PoliciesSnapshot
    \/ setFilterPolicyType
    \/ setFilterCustomerName
    \/ setFilterPolicyNumber
    \/ setFilterPaidByCustomer
    \/ setFilterPaidToInsurer
    \/ setFilterValidUntilStartDate
    \/ setFilterValidUntilEndDate

SpecFilter == InitStoredPolicies /\ [][NextFilter]_vars

\* The text filter is empty or contained in the field, case set aside.
ContainedIn(filter, field) ==
    filter = Empty \/ includes(toLowerCase(Chars(field)), toLowerCase(filter))

\* What the filter is to let through.
PassesFilter(policy) ==
    /\ ContainedIn(filterPolicyType, policy.policyType)
    /\ \/ ContainedIn(filterCustomerName, policy.customer.firstName)
       \/ ContainedIn(filterCustomerName, policy.customer.lastName)
    /\ ContainedIn(filterPolicyNumber, policy.policyNumber)
    /\ filterPaidByCustomer = "all"
         \/ policy.paidByCustomer = (filterPaidByCustomer = "yes")
    /\ filterPaidToInsurer = "all"
         \/ policy.paidToInsurer = (filterPaidToInsurer = "yes")
    /\ (filterValidUntilStartDate # "" /\ policy.validUntil # "")
         => DayNumber(filterValidUntilStartDate) <= DayNumber(policy.validUntil)
    /\ (filterValidUntilEndDate # "" /\ policy.validUntil # "")
         => DayNumber(policy.validUntil) <= DayNumber(filterValidUntilEndDate)

\* C19: a policy is in the filtered list iff each text filter is empty or
\* contained, case set aside, in its field (the customer name in the first or
\* the last name), each paid filter is "all" or the policy's flag equals
\* (filter = "yes"), and its validUntil, if it has one, respects each bound
\* supplied; filtering the filtered list again gives the same list, and the
\* Policies cache stays what the snapshot delivered.
C19_FilterPredicate ==
    /\ filteredPolicies(policies) = SelectSeq(policies, PassesFilter)
    /\ filteredPolicies(filteredPolicies(policies)) = filteredPolicies(policies)
    /\ policies = IF loadingPolicies THEN <<>>
                  ELSE SortByCreatedAtDesc(PoliciesOf(userId))

\* Three policies, one without validUntil; the name filter typed in capitals,
\* the paid filter on "no" and both date bounds leave two of them, the one
\* without validUntil among them.
C19_Witness ==
    /\ Len(policies) = 3
    /\ filterCustomerName = <<"L", "E">>
    /\ filterPaidToInsurer = "no"
    /\ filterValidUntilStartDate # "" /\ filterValidUntilEndDate # ""
    /\ Len(filteredPolicies(policies)) = 2
    /\ \E i \in DOMAIN filteredPolicies(policies) :
        filteredPolicies(policies)[i].validUntil = ""

\* The policy table of a returning user and its column headers.
NextSort ==
    \/ PoliciesSnapshot
    \/ handleSort

SpecSort == InitSorted /\ [][NextSort]_vars

Reverse(s) == [i \in DOMAIN s |-> s[Len(s) + 1 - i]]

\* C20: selecting the sort column that is already selected shows the same
\* policies in exactly the reverse order, whatever the list, policies with
\* equal values in that column included.
C20_ToggleReverses ==
    [][(sortColumn' = sortColumn /\ sortDirection' # sortDirection)
         => /\ UNCHANGED <<policies, filterVars>>
            /\ \A before \in filteredAndSortedPolicies :
                 \A after \in sort(filteredPolicies(policies), sortColumn',
                                   sortDirection') :
                    after = Reverse(before)]_vars

\* The table shows policies with equal values in the column it was sorted by
\* twice in a row.
C20_Witness ==
    /\ last.kind = "handleSort"
    /\ sortDirection = "desc"
    /\ \E i, j \in DOMAIN policies :
        /\ i # j
        /\ compare(policies[i], policies[j], sortColumn, sortDirection) = 0

\* The place of policy x in the list s.
PlaceOf(s, x) == CHOOSE i \in DOMAIN s : s[i] = x

\* Two keys of the same value (NaN is no value: it equals nothing).
SameKey(a, b, column) ==
    LET valA == SortKey(a, column)
        valB == SortKey(b, column)
    IN  /\ valA = valB
        /\ valA.isText \/ ~valA.num.nan

C22_CascadeOrdering ==
    [][LET op == last'.op[1]
           inCache == RelatedPaymentsExpenses(paymentsExpenses, op.id)
       IN  /\ (\E r \in issued' : r.kind = "delete" /\ r.coll = "payments_expenses")
                => last'.kind \in {"deletePolicyCascade", "handleDeletePaymentExpense"}
           /\ last'.kind = "deletePolicyCascade"
                => /\ \A d \in storePolicies' : ~(d.owner = op.uid /\ d.id = op.id)
                   /\ issued' = {Req("delete", "payments_expenses", op.uid, id, {}) :
                                    id \in inCache}
           /\ (last'.kind = "deletePolicySucceeded" /\ op.phase = "policy")
                => inCache = {}
           /\ (last'.kind = "deletePolicyFailed" /\ op.phase = "policy")
                => issued' = {} /\ UNCHANGED storeVars]_vars

\* The policy's delete has succeeded and the cascade has started, with the
\* ledger cache holding an entry of the policy that it did not hold when
\* Delete was clicked.
C22_Witness ==
    /\ last.kind \in {"deletePolicyCascade", "deletePolicySucceeded"}
    /\ last.op[1].phase = "policy"
    /\ RelatedPaymentsExpenses(paymentsExpenses, last.op[1].id) # last.op[1].related


\* The policy table in a session in which the user also adds, filters and
\* deletes policies and signs out.
NextSortSession ==
    \/ AuthStateChanged
    \/ PoliciesSnapshot
    \/ handleSort
    \/ setFilterPaidByCustomer
    \/ handleAddPolicyBase
    \/ AddPolicyResolved
    \/ handleDeletePolicyOK
    \/ DeletePolicyResolved
    \/ handleLogout
    \/ LogoutResolved

SpecSortSession == InitSession /\ [][NextSortSession]_vars

\* C23: handleSort(K) keeps the column and flips the direction when K is the
\* current column, and selects K in ascending direction when it is not; no
\* other operation changes the sort column or the sort direction.
C23_SortStateMachine ==
    [][IF last'.kind = "handleSort"
       THEN LET K == last'.input[1]
            IN  IF K = sortColumn
                THEN /\ sortColumn' = sortColumn
                     /\ sortDirection' # sortDirection
                     /\ sortDirection' \in {"asc", "desc"}
                ELSE /\ sortColumn' = K
                     /\ sortDirection' = "asc"
       ELSE UNCHANGED sortVars]_vars

\* A second click on a column has turned it downwards, a policy has been
\* deleted since, and the next click is on another column.
C23_Witness ==
    /\ last.kind = "handleSort"
    /\ sortColumn = "validUntil"
    /\ sortDirection = "asc"
    /\ modalMessage = Msg("Policy and associated items deleted successfully!", "")


\* C30: while the sort column is createdAt the direction is desc, and once a
\* handleSort has been performed the sort column is never createdAt again.
C30_CreatedAtInitialOnly ==
    /\ sortColumn = "createdAt" /\ sortDirection = "desc"
    /\ [][/\ sortColumn' = "createdAt" => sortDirection' = "desc"
          /\ last'.kind = "handleSort" => sortColumn' # "createdAt"
          /\ sortColumn # "createdAt" => sortColumn' # "createdAt"]_vars

\* A header has been clicked twice and a snapshot has been delivered since.
C30_Witness ==
    /\ last.kind = "policiesSnapshot"
    /\ sortColumn = "policyNumber"
    /\ sortDirection = "desc"
    /\ policies # <<>>


\* handleUpdatePolicy called with any object, next to the customer fan-out.
NextPolicyReplace ==
    \/ PoliciesSnapshot
    \/ handleAddPolicyBase
    \/ AddPolicyResolved
    \/ handleEditPolicyClick
    \/ handleUpdatePolicyCall
    \/ UpdatePolicyResolved
    \/ handleEditCustomerClick
    \/ handleUpdateCustomer
    \/ CustomerWriteResolved

SpecPolicyReplace == InitSession /\ [][NextPolicyReplace]_vars

ReplaceableFields ==
    {"policyType", "policyDate", "validUntil", "totalAmount", "commission",
     "policyNumber", "vehicleNumber", "insuranceType", "paidByCustomer",
     "paidToInsurer", "customer"}

\* The number x is the one the form's text reads as, if it reads as one.
ShownAs(x, text) == ~parseFloat(text).nan => NumToText(x) = text

\* C24: updatePolicy issues no request for an object without id; otherwise it
\* issues one update of the policy that carries every replaceable field with
\* the value the edit form holds, and once it has succeeded the stored policy
\* has these values, the customer block of the form included, whatever a
\* customer fan-out wrote to the store since the form was opened.
C24_WholesaleReplace ==
    /\ (/\ last.kind \in {"updatePolicyNotReady", "handleUpdatePolicy"}
        /\ "id" \in last.input[1].touched)
          => last.kind = "updatePolicyNotReady" /\ issued = {}
    /\ last.kind = "handleUpdatePolicy" =>
          LET op == last.op[1]
              form == EditPolicyData(selectedPolicyForEdit[1], last.input[1])
          IN  /\ issued = {Req("update", "policies", userId, form.id,
                               ReplaceableFields)}
              /\ op.id = form.id
              /\ DOMAIN op.fields = ReplaceableFields
              /\ \A f \in ReplaceableFields \ {"totalAmount", "commission"} :
                    op.fields[f] = form[f]
              /\ ShownAs(op.fields.totalAmount, form.totalAmount)
              /\ ShownAs(op.fields.commission, form.commission)
    /\ last.kind = "updatePolicySucceeded" =>
          LET op == last.op[1]
          IN  /\ \E d \in PoliciesOf(op.uid) : d.id = op.id
              /\ \A d \in PoliciesOf(op.uid) :
                    d.id = op.id => \A f \in ReplaceableFields : d[f] = op.fields[f]

\* An update of a policy has succeeded with the first name the form was
\* opened with, while the cache still shows the policy with the name a
\* customer fan-out gave it in between.
C24_Witness ==
    /\ last.kind = "updatePolicySucceeded"
    /\ last.op[1].fields.customer.firstName = BaseForm.firstName
    /\ \E i \in DOMAIN policies :
          /\ policies[i].id = last.op[1].id
          /\ policies[i].customer.firstName = "Eve"
    /\ \E d \in storePolicies :
          d.id = last.op[1].id /\ d.customer.firstName = BaseForm.firstName


\* C25: in every state of the store, a ledger entry whose policyId is not
\* null refers to a policy that is stored in the same namespace.
C25_LedgerRefersToPolicy ==
    \A e \in storeLedger :
        e.policyId # NoId => \E d \in storePolicies :
                                 d.owner = e.owner /\ d.id = e.policyId

\* The deletion of a policy has ended in the error notification after one
\* delete of its cascade failed.
C25_Witness ==
    /\ last.kind = "deletePolicyFailed"
    /\ last.op[1].phase = "cascade"


\* Signing out while a mutation awaits the store.
NextScope ==
    \/ AuthStateChanged
    \/ PoliciesSnapshot
    \/ PaymentsExpensesSnapshot
    \/ handleAddPolicyBase
    \/ AddPolicyResolved
    \/ handleAddPayment
    \/ AddPaymentExpenseResolved
    \/ handleDeletePolicyOK
    \/ DeletePolicyResolved
    \/ CascadeDeleteResolved
    \/ handleLogoutMeanwhile
    \/ LogoutResolved

SpecScope == InitSession /\ [][NextScope]_vars

\* C26: a create, update or delete request is issued only while a user is
\* signed in, and it is addressed to the namespace of the user who was signed
\* in when the operation was invoked, also when it is issued after an await.
C26_AuthenticatedAndScoped ==
    \A r \in issued :
        /\ userId # NoUser
        /\ r.uid = last.op[1].uid
        /\ last.kind # "deletePolicyCascade" => r.uid = userId

\* The cascade of a deletion invoked by u1 is issued after u1 has signed out.
C26_Witness ==
    /\ last.kind = "deletePolicyCascade"
    /\ issued # {}
    /\ userId = NoUser
    /\ last.op[1].uid = "u1"


\* Two users, one after the other, each with policies and ledger entries,
\* and subscriptions that may report an error.
NextIsolation ==
    \/ AuthStateChanged
    \/ PoliciesSnapshot
    \/ PaymentsExpensesSnapshot
    \/ PoliciesSnapshotError
    \/ PaymentsExpensesSnapshotError
    \/ handleAuth
    \/ AuthResolved
    \/ handleLogout
    \/ LogoutResolved
    \/ handleAddPolicyBase
    \/ AddPolicyResolved
    \/ handleAddPayment
    \/ AddPaymentExpenseResolved

SpecIsolation == InitSession /\ [][NextIsolation]_vars

\* C27: while a user is signed in and the loading flag of a collection is
\* down, the cache of that collection holds only records of that user, also
\* when the subscription has reported an error and no snapshot; while nobody
\* is signed in both caches are empty.
C27_CacheIsolation ==
    /\ (userId # NoUser /\ ~loadingPolicies)
          => \A i \in DOMAIN policies : policies[i].owner = userId
    /\ (userId # NoUser /\ ~loadingPaymentsExpenses)
          => \A i \in DOMAIN paymentsExpenses : paymentsExpenses[i].owner = userId
    /\ userId = NoUser => policies = <<>> /\ paymentsExpenses = <<>>

\* u2 is signed in after u1, whose policy is stored; the policies
\* subscription of u2 has reported an error and no snapshot.
C27_Witness ==
    /\ userId = "u2"
    /\ last.kind = "policiesSnapshotError"
    /\ ~loadingPolicies
    /\ \E d \in storePolicies : d.owner = "u1"


\* The edit modals across sign-out and sign-in.
NextIdentity ==
    \/ AuthStateChanged
    \/ PoliciesSnapshot
    \/ handleAuth
    \/ AuthResolved
    \/ handleLogout
    \/ LogoutResolved
    \/ handleAddPolicyBase
    \/ AddPolicyResolved
    \/ handleEditPolicyClick
    \/ ClosePolicyEditModal
    \/ handleEditCustomerClick
    \/ CloseCustomerEditModal

SpecIdentity == InitSession /\ [][NextIdentity]_vars

\* C28: once the app has been signed out or has changed to another user, no
\* edit modal is open and no policy or customer is selected for editing.
C28_EditStateDropped ==
    [][userId' # userId
         => /\ ~isPolicyEditModalOpen'
            /\ selectedPolicyForEdit' = Null
            /\ ~isCustomerEditModalOpen'
            /\ selectedCustomerForEdit' = Null]_vars

\* u2 is signed in with the Edit Policy modal open on a policy of u1.
C28_Witness ==
    /\ userId = "u2"
    /\ isPolicyEditModalOpen
    /\ selectedPolicyForEdit # Null
    /\ selectedPolicyForEdit[1].owner = "u1"


\* Both edit modals: opened, closed, saved with success and with failure.
NextModal ==
    \/ PoliciesSnapshot
    \/ handleAddPolicyBase
    \/ AddPolicyResolved
    \/ handleEditPolicyClick
    \/ ClosePolicyEditModal
    \/ handleUpdatePolicyAsShown
    \/ UpdatePolicyResolved
    \/ handleEditCustomerClick
    \/ CloseCustomerEditModal
    \/ handleUpdateCustomer
    \/ CustomerWriteResolved

SpecModal == InitSession /\ [][NextModal]_vars

\* C29: while the Edit Policy modal is open a policy is selected, and while
\* the Edit Customer modal is open a customer is selected; a save that
\* succeeds closes its modal and clears its selection; a save that fails
\* leaves its modal and its selection as they are.
C29_EditModalConsistent ==
    [][/\ isPolicyEditModalOpen' => selectedPolicyForEdit' # Null
       /\ isCustomerEditModalOpen' => selectedCustomerForEdit' # Null
       /\ last'.kind = "updatePolicySucceeded"
             => ~isPolicyEditModalOpen' /\ selectedPolicyForEdit' = Null
       /\ last'.kind = "updateCustomerSucceeded"
             => ~isCustomerEditModalOpen' /\ selectedCustomerForEdit' = Null
       /\ last'.kind = "updatePolicyFailed"
             => UNCHANGED <<isPolicyEditModalOpen, selectedPolicyForEdit>>
       /\ last'.kind \in {"updateCustomerFailed", "customerWriteFailed"}
             => UNCHANGED <<isCustomerEditModalOpen, selectedCustomerForEdit>>]_vars

\* A save of the Edit Policy modal has failed: the modal is open on the
\* policy, the error is shown.
C29_Witness ==
    /\ last.kind = "updatePolicyFailed"
    /\ isPolicyEditModalOpen
    /\ selectedPolicyForEdit # Null
    /\ modalMessage.text = "Error updating policy"

====
